---------------------------- MODULE Spec2Model ----------------------------
(***************************************************************************)
(* RIPS document synthesis and validation (openemr-rips-generator).        *)
(*                                                                         *)
(*   - the Validation Engine      src/src/server/rips-validator.ts         *)
(*   - the Direct Pipeline        src/unnamed/part_003 (ripsRouter)        *)
(*   - the Tree Interpreter       src/src/server/rips-generator.ts         *)
(*   - the reference-table sync   src/src/server/sync.ts                   *)
(*                                                                         *)
(* The specifications of the module:                                         *)
(*   Spec          concurrent Direct Pipeline generation calls             *)
(*   SpecPipeline  one Direct Pipeline call over bounded selections        *)
(*   SpecValidate  validateRipsJson applied to bounded documents           *)
(*   SpecTree      rips.generate (preset driven) over bounded presets      *)
(*   SpecSync      one run of syncAllTables over bounded remote lists      *)
(*   SpecSyncFair  the same under weak fairness of the generator's steps   *)
(***************************************************************************)
EXTENDS Integers, Sequences, FiniteSets, TLC

VARIABLES
    \* ---- Direct Pipeline (Spec) ----
    pc,          \* pc[c]: position of generation call c in generateProcedure
    input,       \* input[c]: the selections the call was given
    local,       \* local[c]: the handler's local variables that outlive an await
    response,    \* response[c]: what the call returned or threw
    generations, \* the RipsGeneration table: sequence of audit records
    refTable,    \* the ReferenceRecord rows of table RIPSIncapacidad
    emr,         \* the OpenEMR database the queries read
    \* ---- Validation Engine (SpecValidate) ----
    vDoc,        \* the document handed to validateRipsJson
    vNow,        \* the clock read by calculateAge, in quarter days
    vOut,        \* the findings returned
    vpc,
    \* ---- Tree Interpreter (SpecTree) ----
    tReq,        \* the request: preset store, preset id, date range, failures
    tRes,        \* the response of rips.generate
    tpc,
    \* ---- reference-table sync (SpecSync) ----
    sReq,        \* the remote table list and what fails for each table
    sLocal,      \* the generator's locals: tables, completed, the caught error
    sEvents,     \* the events yielded so far
    sDb,         \* the local database: SyncTable rows and ReferenceRecord keys
    spc

vars == <<pc, input, local, response, generations, refTable, emr,
          vDoc, vNow, vOut, vpc, tReq, tRes, tpc,
          sReq, sLocal, sEvents, sDb, spc>>

pipeVars == <<pc, input, local, response, generations, refTable, emr>>
valVars == <<vDoc, vNow, vOut, vpc>>
treeVars == <<tReq, tRes, tpc>>
syncVars == <<sReq, sLocal, sEvents, sDb, spc>>
\* no sync run takes part
SyncOff == sReq = <<>> /\ sLocal = <<>> /\ sEvents = <<>> /\ sDb = <<>> /\ spc = "off"

(***************************************************************************)
(* JavaScript values.  Every value is a record with a type tag t.          *)
(*   scalars  [t, s, n]   string text s / number n                         *)
(*   arrays   [t, items]  objects  [t, f] with f a function on key names   *)
(* A string whose text is the ISO rendering of an instant carries          *)
(* s = IsoText and the instant in n, counted in quarter days since the     *)
(* epoch (365.25 days are exactly 1461 quarter days).                      *)
(***************************************************************************)
Null == [t |-> "null", s |-> "", n |-> 0]
Undef == [t |-> "undefined", s |-> "", n |-> 0]
NaN == [t |-> "nan", s |-> "", n |-> 0]
Str(x) == [t |-> "string", s |-> x, n |-> 0]
Num(k) == [t |-> "number", s |-> "", n |-> k]
IsoText == "<iso-instant>"
IsoDate(q) == [t |-> "string", s |-> IsoText, n |-> q]
\* a Date object of the database driver: an instant, or an Invalid Date (a
\* zero date of MySQL)
DateObj(q) == [t |-> "date", s |-> "", n |-> q]
InvalidDate == [t |-> "date", s |-> "invalid", n |-> 0]
\* the value standing for a raised exception inside a synchronous computation
Raised == [t |-> "raised", s |-> "", n |-> 0]
Arr(seq) == [t |-> "array", items |-> seq]
Obj(fn) == [t |-> "object", f |-> fn]

IsScalar(v) == v.t \in {"null", "undefined", "nan", "string", "number"}

\* o.k for an object o; other receivers yield undefined (reading a property
\* of null or undefined throws: see Throws below)
Get(o, k) == IF o.t = "object" /\ k \in DOMAIN o.f THEN o.f[k] ELSE Undef

\* !!v
Truthy(v) ==
    CASE v.t = "string" -> v.s # ""
      [] v.t = "number" -> v.n # 0
      [] v.t \in {"array", "object", "date"} -> TRUE
      [] OTHER -> FALSE

\* a || b
OrElse(a, b) == IF Truthy(a) THEN a ELSE b

\* list.includes(v) for a list of string literals
Includes(list, v) == v.t = "string" /\ v.s \in list

\* v.length: defined for strings and arrays only
HasLength(v) == v.t \in {"string", "array"}
LengthOf(v) ==
    CASE v.t = "string" -> IF v.s = IsoText THEN 24 ELSE Len(v.s)
      [] v.t = "array" -> Len(v.items)
      [] OTHER -> 0

\* v.length < k, v.length > k, v.length !== k (undefined compares false,
\* and differs from every number)
LengthLess(v, k) == HasLength(v) /\ LengthOf(v) < k
LengthMore(v, k) == HasLength(v) /\ LengthOf(v) > k
LengthIsNot(v, k) == ~HasLength(v) \/ LengthOf(v) # k

\* v < 0 for the scalars of the model (null converts to 0, undefined to NaN;
\* the strings of the model are not numerals)
Negative(v) == v.t = "number" /\ v.n < 0

\* isNaN(Date.parse(v)): only ISO texts parse
DateParseFails(v) == ~(v.t = "string" /\ v.s = IsoText)

\* /^\d+$/.test(v) over the texts of the model
DigitTexts == {"1234", "12345678", "12345678901", "123456789012"}
OnlyDigits(v) ==
    \/ v.t = "string" /\ v.s \in DigitTexts
    \/ v.t = "number" /\ v.n >= 0

(***************************************************************************)
(* Validation Engine: rips-validator.ts                                    *)
(***************************************************************************)
VALID_DOCUMENT_TYPES ==
    {"CC", "CE", "CD", "PA", "SC", "PE", "RC", "TI", "CN", "AS", "MS", "DE", "SI", "PT"}
VALID_USER_TYPES ==
    {"01", "02", "03", "04", "05", "06", "07", "08", "09", "10", "11", "12", "13"}
VALID_SEX_CODES == {"M", "F", "I"}
VALID_MODALITIES == {"01", "02", "03", "04", "06", "07", "08", "09"}
VALID_SERVICE_GROUPS == {"01", "02", "03", "04", "05"}
VALID_CAUSES == {"21", "22", "23", "24", "25", "26", "27", "28", "29", "30", "38"}
VALID_DIAG_TYPES == {"01", "02", "03"}
VALID_CONCEPTO_RECAUDO == {"01", "02", "03", "04", "05"}
VALID_VIA_INGRESO == {"01", "02", "03", "04"}

\* DOC_LENGTHS: max per document type, min where one is set (0: none)
DocMax(docType) ==
    CASE docType \in {"CC", "AS"} -> 10
      [] docType = "CE" -> 6
      [] docType \in {"CD", "PA", "SC"} -> 16
      [] docType = "PE" -> 15
      [] docType \in {"RC", "TI"} -> 11
      [] docType = "MS" -> 12
      [] docType \in {"CN", "DE", "PT", "SI"} -> 20
      [] OTHER -> 0
DocMin(docType) == IF docType = "CN" THEN 9 ELSE 0
HasDocRules(v) == v.t = "string" /\ v.s \in VALID_DOCUMENT_TYPES

\* one finding (ValidationError); arg carries the number a message embeds
Finding(scope, field, message, arg, value, severity) ==
    [scope |-> scope, field |-> field, message |-> message, arg |-> arg,
     value |-> value, severity |-> severity]
Err(scope, field, message, value) == Finding(scope, field, message, 0, value, "error")

StructureScope == [kind |-> "Structure", user |-> <<>>, item |-> <<>>]
TransactionScope == [kind |-> "Transaction", user |-> <<>>, item |-> <<>>]

\* errors.push(...) when cond
When(cond, finding) == IF cond THEN <<finding>> ELSE <<>>

QuarterDaysPerYear == 1461
MsPerQuarterDay == 21600000

\* calculateAge(dobStr, referenceDate): -1 for a falsy dob, else
\* floor((now - dob) / 365.25 days); NaN when dob does not parse
calculateAge(dob, now) ==
    IF ~Truthy(dob) THEN Num(-1)
    ELSE CASE dob.t = "string" /\ dob.s = IsoText ->
                Num((now - dob.n) \div QuarterDaysPerYear)
           [] dob.t = "number" ->
                Num((now - (dob.n \div MsPerQuarterDay)) \div QuarterDaysPerYear)
           [] OTHER -> NaN

StrIs(v, text) == v.t = "string" /\ v.s = text

\* T01: numDocumentoIdObligado, 4 to 12 characters
ObligadoFindings(trans) ==
    LET t01 == Get(trans, "numDocumentoIdObligado") IN
    When(~Truthy(t01) \/ LengthLess(t01, 4) \/ LengthMore(t01, 12),
         Err(TransactionScope, "numDocumentoIdObligado",
             "Must be between 4 and 12 characters", t01))

\* T02: numFactura is a string or null
FacturaFindings(trans) ==
    LET nf == Get(trans, "numFactura") IN
    When(nf.t # "null" /\ nf.t # "string",
         Err(TransactionScope, "numFactura", "Must be a string or null", nf))

\* T03: tipoNota; both checks sit inside `if (t03 !== null)`
TipoNotaFindings(trans) ==
    LET t03 == Get(trans, "tipoNota")
        nf == Get(trans, "numFactura")
    IN  IF t03.t = "null" THEN <<>>
        ELSE When(t03.t # "string" \/ LengthMore(t03, 2),
                  Err(TransactionScope, "tipoNota",
                      "Must be a string max 2 chars or null", t03))
             \o
             When(~Truthy(nf) /\ ~StrIs(t03, "RS"),
                  Finding(TransactionScope, "tipoNota",
                          "For RIPS without FEV (no invoice number), tipoNota should be 'RS'",
                          0, t03, "warning"))

TransactionFindings(trans) ==
    ObligadoFindings(trans) \o FacturaFindings(trans) \o TipoNotaFindings(trans)

UserScope(user, index) ==
    [kind |-> "User",
     user |-> <<OrElse(Get(user, "consecutivo"), Num(index)),
                Get(user, "tipoDocumentoIdentificacion"),
                Get(user, "numDocumentoIdentificacion")>>,
     item |-> <<>>]

ItemScope(kind, userScope, item, index) ==
    [kind |-> kind, user |-> userScope.user,
     item |-> <<OrElse(Get(item, "consecutivo"), Num(index))>>]

\* U02: document number
DocNumberFindings(scope, docType, docNum) ==
    IF ~Truthy(docNum)
    THEN <<Err(scope, "numDocumentoIdentificacion", "Missing Document Number", docNum)>>
    ELSE When((StrIs(docType, "CC") \/ StrIs(docType, "TI")) /\ ~OnlyDigits(docNum),
              Err(scope, "numDocumentoIdentificacion",
                  "Must differ contain only numbers for CC/TI", docNum))
         \o
         (IF HasDocRules(docType)
          THEN When(LengthMore(docNum, DocMax(docType.s)),
                    Finding(scope, "numDocumentoIdentificacion", "Max length exceeded (Max)",
                            DocMax(docType.s), docNum, "error"))
               \o
               When(DocMin(docType.s) # 0 /\ LengthLess(docNum, DocMin(docType.s)),
                    Finding(scope, "numDocumentoIdentificacion", "Min length not met (Min)",
                            DocMin(docType.s), docNum, "error"))
          ELSE <<>>)

\* the value of an age finding: the text `Age: ${age}, Type: ${docType}`
AgeValue(age, docType) == [t |-> "string", s |-> docType.s, n |-> age.n]
AgeErr(scope, message, age, docType) ==
    Err(scope, "tipoDocumentoIdentificacion", message, AgeValue(age, docType))

\* comparisons of the computed age; NaN compares false
AgeLt(age, k) == age.t = "number" /\ age.n < k
AgeLe(age, k) == age.t = "number" /\ age.n <= k
AgeGt(age, k) == age.t = "number" /\ age.n > k
AgeGe(age, k) == age.t = "number" /\ age.n >= k

TIAgeFindings_MutStrict(scope, docType, age) ==
    When(AgeLt(age, 7), AgeErr(scope, "TI is for >= 7 years old", age, docType))
    \o When(AgeGe(age, 18),
            AgeErr(scope, "TI is invalid for >= 19 years old", age, docType))

\* the TI band: [7, 19)
TIAgeFindings(scope, docType, age) ==
    When(AgeLt(age, 7), AgeErr(scope, "TI is for >= 7 years old", age, docType))
    \o When(AgeGe(age, 19),
            AgeErr(scope, "TI is invalid for >= 19 years old", age, docType))

\* Age vs document type: the else-if chain over CC, TI, RC, CN, AS, MS
AgeBandFindings(scope, docType, age) ==
    CASE StrIs(docType, "CC") ->
            When(AgeLt(age, 18), AgeErr(scope, "CC is for >= 18 years old", age, docType))
      [] StrIs(docType, "TI") -> TIAgeFindings(scope, docType, age)
      [] StrIs(docType, "RC") ->
            When(AgeGe(age, 8),
                 AgeErr(scope, "RC is invalid for >= 8 years old", age, docType))
      [] StrIs(docType, "CN") ->
            When(AgeGt(age, 3), AgeErr(scope, "CN is for <= 3 years old", age, docType))
      [] StrIs(docType, "AS") ->
            When(AgeLe(age, 18), AgeErr(scope, "AS is for > 18 years old", age, docType))
      [] StrIs(docType, "MS") ->
            When(AgeGt(age, 18), AgeErr(scope, "MS is for minors (<= 18)", age, docType))
      [] OTHER -> <<>>

\* Age logic: age === -1 is the missing-date sentinel
AgeFindings(scope, user, now) ==
    LET dob == Get(user, "fechaNacimiento")
        age == calculateAge(dob, now)
    IN  IF age.t = "number" /\ age.n = -1
        THEN <<Err(scope, "fechaNacimiento", "Invalid or missing Date of Birth", dob)>>
        ELSE AgeBandFindings(scope, Get(user, "tipoDocumentoIdentificacion"), age)

\* U07: municipality, required with 5 characters when the country is 170
MunicipioFindings(scope, user) ==
    LET mun == Get(user, "codMunicipioResidencia") IN
    IF StrIs(Get(user, "codPaisResidencia"), "170")
    THEN IF ~Truthy(mun)
         THEN <<Err(scope, "codMunicipioResidencia", "Municipality required for Colombia", mun)>>
         ELSE When(LengthIsNot(mun, 5),
                   Err(scope, "codMunicipioResidencia",
                       "Municipality code must be 5 characters", mun))
    ELSE <<>>

\* the checks of one user record, before its services
UserOwnFindings(user, index, now) ==
    LET scope == UserScope(user, index)
        docType == Get(user, "tipoDocumentoIdentificacion")
    IN  When(~Includes(VALID_DOCUMENT_TYPES, docType),
             Err(scope, "tipoDocumentoIdentificacion", "Invalid Document Type", docType))
        \o DocNumberFindings(scope, docType, Get(user, "numDocumentoIdentificacion"))
        \o AgeFindings(scope, user, now)
        \o When(~Includes(VALID_USER_TYPES, Get(user, "tipoUsuario")),
                Err(scope, "tipoUsuario", "Invalid User Type", Get(user, "tipoUsuario")))
        \o When(~Includes(VALID_SEX_CODES, Get(user, "codSexo")),
                Err(scope, "codSexo", "Invalid Sex Code", Get(user, "codSexo")))
        \o MunicipioFindings(scope, user)
        \o When(~Includes({"SI", "NO"}, Get(user, "incapacidad")),
                Err(scope, "incapacidad", "Must be SI or NO", Get(user, "incapacidad")))

RECURSIVE Flatten(_)
\* the concatenation of a sequence of sequences, in order
Flatten(seqs) == IF seqs = <<>> THEN <<>> ELSE Head(seqs) \o Flatten(Tail(seqs))

\* codPrestador: required, exactly 12 characters (C01, P01, M01)
PrestadorFindings(scope, item) ==
    LET cp == Get(item, "codPrestador") IN
    IF ~Truthy(cp) THEN <<Err(scope, "codPrestador", "Required", Null)>>
    ELSE When(LengthIsNot(cp, 12),
              Err(scope, "codPrestador", "Must be exactly 12 characters", cp))

Required(scope, item, field) ==
    When(~Truthy(Get(item, field)), Err(scope, field, "Required", Null))

NotNegative(scope, item, field) ==
    When(Negative(Get(item, field)),
         Err(scope, field, "Cannot be negative", Get(item, field)))

OneOf(scope, item, field, list, message) ==
    When(~Includes(list, Get(item, field)), Err(scope, field, message, Get(item, field)))

\* the consultation checks with the codConsulta check skipped when the
\* codPrestador check has failed
ConsultaFindings_MutElse(userScope, c, i) ==
    LET scope == ItemScope("Consulta", userScope, c, i)
        fecha == Get(c, "fechaInicioAtencion")
    IN  PrestadorFindings(scope, c)
        \o (IF ~Truthy(fecha)
            THEN <<Err(scope, "fechaInicioAtencion", "Required", Null)>>
            ELSE When(DateParseFails(fecha),
                      Err(scope, "fechaInicioAtencion", "Invalid Date Format", fecha)))
        \o (IF PrestadorFindings(scope, c) # <<>> THEN <<>>
            ELSE Required(scope, c, "codConsulta"))
        \o OneOf(scope, c, "modalidadGrupoServicio", VALID_MODALITIES, "Invalid Modality Code")
        \o OneOf(scope, c, "grupoServicios", VALID_SERVICE_GROUPS, "Invalid Service Group Code")
        \o Required(scope, c, "finalidadTecnologiaSalud")
        \o OneOf(scope, c, "causaMotivoAtencion", VALID_CAUSES, "Invalid Cause Code")
        \o Required(scope, c, "codDiagnosticoPrincipal")
        \o OneOf(scope, c, "tipoDiagnosticoPrincipal", VALID_DIAG_TYPES, "Invalid Diagnosis Type")
        \o NotNegative(scope, c, "valorPagoModerador")
        \o NotNegative(scope, c, "valorConsulta")
        \o OneOf(scope, c, "conceptoRecaudo", VALID_CONCEPTO_RECAUDO, "Invalid Concepto Recaudo")

\* the body of servicios.consultas.forEach
ConsultaFindings(userScope, c, i) ==
    LET scope == ItemScope("Consulta", userScope, c, i)
        fecha == Get(c, "fechaInicioAtencion")
    IN  PrestadorFindings(scope, c)
        \o (IF ~Truthy(fecha)
            THEN <<Err(scope, "fechaInicioAtencion", "Required", Null)>>
            ELSE When(DateParseFails(fecha),
                      Err(scope, "fechaInicioAtencion", "Invalid Date Format", fecha)))
        \o Required(scope, c, "codConsulta")
        \o OneOf(scope, c, "modalidadGrupoServicio", VALID_MODALITIES, "Invalid Modality Code")
        \o OneOf(scope, c, "grupoServicios", VALID_SERVICE_GROUPS, "Invalid Service Group Code")
        \o Required(scope, c, "finalidadTecnologiaSalud")
        \o OneOf(scope, c, "causaMotivoAtencion", VALID_CAUSES, "Invalid Cause Code")
        \o Required(scope, c, "codDiagnosticoPrincipal")
        \o OneOf(scope, c, "tipoDiagnosticoPrincipal", VALID_DIAG_TYPES, "Invalid Diagnosis Type")
        \o NotNegative(scope, c, "valorPagoModerador")
        \o NotNegative(scope, c, "valorConsulta")
        \o OneOf(scope, c, "conceptoRecaudo", VALID_CONCEPTO_RECAUDO, "Invalid Concepto Recaudo")

\* the body of servicios.procedimientos.forEach
ProcedimientoFindings(userScope, p, i) ==
    LET scope == ItemScope("Procedimiento", userScope, p, i)
        fecha == Get(p, "fechaInicioAtencion")
    IN  PrestadorFindings(scope, p)
        \o When(~Truthy(fecha) \/ DateParseFails(fecha),
                Err(scope, "fechaInicioAtencion", "Invalid Date Format", fecha))
        \o Required(scope, p, "codProcedimiento")
        \o OneOf(scope, p, "viaIngresoServicio", VALID_VIA_INGRESO, "Invalid Via Ingreso Code")
        \o Required(scope, p, "finalidadTecnologiaSalud")
        \o NotNegative(scope, p, "valorProcedimiento")
        \o OneOf(scope, p, "conceptoRecaudo", VALID_CONCEPTO_RECAUDO, "Invalid Concepto Recaudo")

MaxDiasTratamiento == 999

\* the body of servicios.medicamentos.forEach
MedicamentoFindings(userScope, m, i) ==
    LET scope == ItemScope("Medicamento", userScope, m, i)
        fecha == Get(m, "fechaDispencr")
        dias == Get(m, "diasTratamiento")
    IN  PrestadorFindings(scope, m)
        \o When(~Truthy(fecha) \/ DateParseFails(fecha),
                Err(scope, "fechaDispencr", "Invalid Date Format", fecha))
        \o Required(scope, m, "codDiagnosticoPrincipal")
        \o Required(scope, m, "tipoMedicamento")
        \o Required(scope, m, "codTecnologiaSalud")
        \o Required(scope, m, "nomTecnologiaSalud")
        \o When(dias.t # "number" \/ dias.n < 0 \/ dias.n > MaxDiasTratamiento,
                Err(scope, "diasTratamiento", "Invalid Days (0-999)", dias))
        \o NotNegative(scope, m, "valorUnitarioMedicamento")
        \o NotNegative(scope, m, "valorServicio")
        \o OneOf(scope, m, "conceptoRecaudo", VALID_CONCEPTO_RECAUDO, "Invalid Concepto Recaudo")

\* list.forEach((x, i) => ...) over an array value, nothing when it is no array
ItemsOf(v) == IF v.t = "array" THEN v.items ELSE <<>>

\* validateServices visiting the procedures before the consultations
validateServices_MutOrder(servicios, userScope) ==
    LET cs == ItemsOf(Get(servicios, "consultas"))
        ps == ItemsOf(Get(servicios, "procedimientos"))
        ms == ItemsOf(Get(servicios, "medicamentos"))
    IN  Flatten([i \in 1..Len(ps) |-> ProcedimientoFindings(userScope, ps[i], i)])
        \o Flatten([i \in 1..Len(cs) |-> ConsultaFindings(userScope, cs[i], i)])
        \o Flatten([i \in 1..Len(ms) |-> MedicamentoFindings(userScope, ms[i], i)])

validateServices(servicios, userScope) ==
    LET cs == ItemsOf(Get(servicios, "consultas"))
        ps == ItemsOf(Get(servicios, "procedimientos"))
        ms == ItemsOf(Get(servicios, "medicamentos"))
    IN  Flatten([i \in 1..Len(cs) |-> ConsultaFindings(userScope, cs[i], i)])
        \o Flatten([i \in 1..Len(ps) |-> ProcedimientoFindings(userScope, ps[i], i)])
        \o Flatten([i \in 1..Len(ms) |-> MedicamentoFindings(userScope, ms[i], i)])

\* the body of trans.usuarios.forEach
UserFindings(user, index, now) ==
    UserOwnFindings(user, index, now)
    \o (IF Truthy(Get(user, "servicios"))
        THEN validateServices(Get(user, "servicios"), UserScope(user, index))
        ELSE <<>>)

MissingTransaction ==
    Err(StructureScope, "transaccion", "Missing transaction object", Null)
UsuariosNotArray(trans) ==
    Err(TransactionScope, "usuarios", "Must be an array", Get(trans, "usuarios"))

\* validateRipsJson with the T01 check hoisted above the transaction gate
\* (reading json.transaccion?.numDocumentoIdObligado)
validateRipsJson_MutLateGate(json, now) ==
    LET trans == Get(json, "transaccion")
        us == Get(trans, "usuarios")
    IN  ObligadoFindings(trans)
        \o (IF ~Truthy(trans) THEN <<MissingTransaction>>
            ELSE FacturaFindings(trans) \o TipoNotaFindings(trans)
                 \o (IF us.t # "array" THEN <<UsuariosNotArray(trans)>>
                     ELSE Flatten([i \in 1..Len(us.items) |->
                                      UserFindings(us.items[i], i, now)])))

\* validateRipsJson(json): the findings, in the order they are pushed
validateRipsJson(json, now) ==
    LET trans == Get(json, "transaccion")
        us == Get(trans, "usuarios")
    IN  IF ~Truthy(trans) THEN <<MissingTransaction>>
        ELSE TransactionFindings(trans)
             \o (IF us.t # "array" THEN <<UsuariosNotArray(trans)>>
                 ELSE Flatten([i \in 1..Len(us.items) |-> UserFindings(us.items[i], i, now)]))

\* reading a property of null or undefined raises a TypeError
Nullish(v) == v.t \in {"null", "undefined"}
ServicesThrow(servicios) ==
    \E k \in {"consultas", "procedimientos", "medicamentos"} :
        \E i \in 1..Len(ItemsOf(Get(servicios, k))) :
            Nullish(ItemsOf(Get(servicios, k))[i])
validateThrows(json) ==
    \/ Nullish(json)
    \/ LET trans == Get(json, "transaccion")
           us == Get(trans, "usuarios")
       IN  /\ Truthy(trans)
           /\ \E i \in 1..Len(ItemsOf(us)) :
                \/ Nullish(us.items[i])
                \/ /\ Truthy(Get(us.items[i], "servicios"))
                   /\ ServicesThrow(Get(us.items[i], "servicios"))

(***************************************************************************)
(* SpecValidate: validateRipsJson over bounded documents                   *)
(***************************************************************************)
\* o with key k set to v
With(o, k, v) == Obj([x \in DOMAIN o.f \cup {k} |-> IF x = k THEN v ELSE o.f[x]])

\* the instants at which the validator reads the clock (quarter days since
\* the epoch: four times of one day)
NowChoices == {80000, 80001, 80002, 80003}

\* largest age, in years, of the users handed to the validator
MaxAge == 20

\* a consultation, a procedure and a medication that pass every check
GoodConsulta ==
    Obj([codPrestador |-> Str("900123456001"), fechaInicioAtencion |-> IsoDate(79000),
         numAutorizacion |-> Str(""), codConsulta |-> Str("890201"),
         modalidadGrupoServicio |-> Str("01"), grupoServicios |-> Str("01"),
         codServicio |-> Str("348"), finalidadTecnologiaSalud |-> Str("10"),
         causaMotivoAtencion |-> Str("38"), codDiagnosticoPrincipal |-> Str("J00"),
         codDiagnosticoRelacionado1 |-> Str(""), codDiagnosticoRelacionado2 |-> Str(""),
         codDiagnosticoRelacionado3 |-> Str(""), tipoDiagnosticoPrincipal |-> Str("01"),
         tipoDocumentoIdentificacion |-> Str("CC"), numDocumentoIdentificacion |-> Str("1234"),
         valorPagoModerador |-> Num(0), valorConsulta |-> Num(0),
         conceptoRecaudo |-> Str("05"), numFEVPagoModerador |-> Str(""),
         consecutivo |-> Num(1)])
GoodProcedimiento ==
    Obj([codPrestador |-> Str("900123456001"), fechaInicioAtencion |-> IsoDate(79000),
         idMIPRES |-> Null, numAutorizacion |-> Str(""), codProcedimiento |-> Str("903841"),
         viaIngresoServicio |-> Str("01"), modalidadGrupoServicio |-> Str("01"),
         grupoServicios |-> Str("01"), codServicio |-> Str("348"),
         finalidadTecnologiaSalud |-> Str("44"), tipoDocumentoIdentificacion |-> Str("CC"),
         numDocumentoIdentificacion |-> Str("1234"), codDiagnosticoPrincipal |-> Str("J00"),
         codDiagnosticoRelacionado |-> Str(""), codComplicacion |-> Str(""),
         valorPagoModerador |-> Num(0), valorProcedimiento |-> Num(5),
         conceptoRecaudo |-> Str("05"), numFEVPagoModerador |-> Str(""),
         consecutivo |-> Num(1)])
GoodMedicamento ==
    Obj([codPrestador |-> Str("900123456001"), numAutorizacion |-> Str(""), idMIPRES |-> Null,
         fechaDispencr |-> IsoDate(79000), codDiagnosticoPrincipal |-> Str("J00"),
         codDiagnosticoRelacionado |-> Str(""), tipoMedicamento |-> Str("01"),
         codTecnologiaSalud |-> Str("RX1"), nomTecnologiaSalud |-> Str("drug"),
         concentracionMedicamento |-> Num(0), unidadMedida |-> Str(""),
         formaFarmaceutica |-> Str(""), unidadMinDispensacion |-> Str(""),
         cantidadMedicamento |-> Num(1), diasTratamiento |-> Num(3),
         tipoDocumentoIdentificacion |-> Str("CC"), numDocumentoIdentificacion |-> Str("1234"),
         valorPagoModerador |-> Num(0), valorUnitarioMedicamento |-> Num(0),
         valorServicio |-> Num(0), conceptoRecaudo |-> Str("05"),
         numFEVPagoModerador |-> Str(""), consecutivo |-> Num(1)])

Services(cs, ps, ms) ==
    Obj([consultas |-> Arr(cs), procedimientos |-> Arr(ps), medicamentos |-> Arr(ms),
         urgencias |-> Arr(<<>>), hospitalizacion |-> Arr(<<>>),
         recienNacidos |-> Arr(<<>>), otrosServicios |-> Arr(<<>>)])

\* a user that passes every check for every clock of NowChoices (age 30)
GoodUser(no, servicios) ==
    Obj([tipoDocumentoIdentificacion |-> Str("CC"),
         numDocumentoIdentificacion |-> Str("12345678"), tipoUsuario |-> Str("01"),
         fechaNacimiento |-> IsoDate(36000), codSexo |-> Str("F"),
         codPaisResidencia |-> Str("170"), codMunicipioResidencia |-> Str("05001"),
         incapacidad |-> Str("NO"), consecutivo |-> Num(no), servicios |-> servicios])

Transaction(obligado, factura, tipoNota, usuarios) ==
    Obj([numDocumentoIdObligado |-> obligado, numFactura |-> factura,
         tipoNota |-> tipoNota, numNota |-> Null, usuarios |-> usuarios])
Document(trans) == Obj([transaccion |-> trans])
GoodDocument(users) ==
    Document(Transaction(Str("900123456"), Str("FV-1"), Null, Arr(users)))

\* documents that vary the structure and the transaction fields
StructureInputs ==
    {Obj(<<>>), Document(Null), Document(Str("x"))}
    \cup
    {Document(Transaction(ob, nf, tn, us)) :
        ob \in {Str("900123456"), Str("123"), Null},
        nf \in {Str("FV-1"), Str(""), Null, Num(7)},
        tn \in {Null, Undef, Str("RS"), Str("NC"), Str("NCX")},
        us \in {Arr(<<>>), Arr(<<GoodUser(1, Services(<<>>, <<>>, <<>>))>>),
                Null, Undef, Str("x")}}

\* dates of birth around every whole age 0..MaxAge for the clock `now`, a date
\* in the future, and the missing and unparsable ones
DobChoices(now) ==
    {Null, Str(""), Str("not-a-date")}
    \cup {IsoDate(4 * (((now - QuarterDaysPerYear * a) \div 4) + e)) :
             a \in 0..MaxAge, e \in {0, 1}}
    \cup {IsoDate(4 * ((now \div 4) + 400))}

\* documents of one user that vary document type and date of birth
AgeInputs(now) ==
    {GoodDocument(<<With(With(GoodUser(1, Services(<<>>, <<>>, <<>>)),
                              "tipoDocumentoIdentificacion", Str(dt)),
                         "fechaNacimiento", dob)>>) :
        dt \in {"CC", "TI", "RC", "CN", "AS", "MS", "CE", "PA", "XX"},
        dob \in DobChoices(now)}

MoneyChoices == {Num(-1), Num(0), Num(5), Null}

\* documents of one user with one service record whose monetary fields vary
MoneyInputs ==
    {GoodDocument(<<GoodUser(1, Services(
            <<With(With(GoodConsulta, "valorPagoModerador", a), "valorConsulta", b)>>,
            <<>>, <<>>))>>) : a \in MoneyChoices, b \in MoneyChoices}
    \cup
    {GoodDocument(<<GoodUser(1, Services(<<>>,
            <<With(With(GoodProcedimiento, "valorPagoModerador", a),
                   "valorProcedimiento", b)>>, <<>>))>>) :
        a \in MoneyChoices, b \in MoneyChoices}
    \cup
    {GoodDocument(<<GoodUser(1, Services(<<>>, <<>>,
            <<With(With(With(GoodMedicamento, "valorPagoModerador", a),
                        "valorUnitarioMedicamento", b), "valorServicio", c)>>))>>) :
        a \in MoneyChoices, b \in MoneyChoices, c \in {Num(-1), Num(0)}}

\* service records with one failing field, numbered no
BadConsulta(no) == With(With(GoodConsulta, "consecutivo", Num(no)), "codConsulta", Null)
BadProcedimiento(no) ==
    With(With(GoodProcedimiento, "consecutivo", Num(no)), "codProcedimiento", Null)
BadMedicamento(no) ==
    With(With(GoodMedicamento, "consecutivo", Num(no)), "tipoMedicamento", Null)

\* users numbered no whose own fields and whose services fail in places
OrderUsers(no) ==
    {With(GoodUser(no, Services(cs, ps, ms)), "codSexo", sex) :
        sex \in {Str("F"), Str("X")},
        cs \in {<<>>, <<BadConsulta(1), BadConsulta(2)>>, <<GoodConsulta, BadConsulta(2)>>},
        ps \in {<<>>, <<BadProcedimiento(1), BadProcedimiento(2)>>},
        ms \in {<<>>, <<BadMedicamento(1), BadMedicamento(2)>>}}

\* documents of two users with findings at every level of the traversal
OrderInputs ==
    {Document(Transaction(Str("123"), Str("FV-1"), Str("NCX"), Arr(<<a, b>>))) :
        a \in OrderUsers(1), b \in OrderUsers(2)}

\* for each checked field of a record, a value that fails the field's check
UserBad ==
    [tipoDocumentoIdentificacion |-> Str("XX"), numDocumentoIdentificacion |-> Null,
     fechaNacimiento |-> Null, tipoUsuario |-> Str("99"), codSexo |-> Str("X"),
     codMunicipioResidencia |-> Null, incapacidad |-> Str("QUIZA")]
ConsultaBad ==
    [codPrestador |-> Null, fechaInicioAtencion |-> Null, codConsulta |-> Null,
     modalidadGrupoServicio |-> Str("99"), grupoServicios |-> Str("99"),
     finalidadTecnologiaSalud |-> Null, causaMotivoAtencion |-> Str("99"),
     codDiagnosticoPrincipal |-> Null, tipoDiagnosticoPrincipal |-> Str("99"),
     valorPagoModerador |-> Num(-1), valorConsulta |-> Num(-1),
     conceptoRecaudo |-> Str("99")]
ProcedimientoBad ==
    [codPrestador |-> Null, fechaInicioAtencion |-> Null, codProcedimiento |-> Null,
     viaIngresoServicio |-> Str("99"), finalidadTecnologiaSalud |-> Null,
     valorProcedimiento |-> Num(-1), conceptoRecaudo |-> Str("99")]
MedicamentoBad ==
    [codPrestador |-> Null, fechaDispencr |-> Null, codDiagnosticoPrincipal |-> Null,
     tipoMedicamento |-> Null, codTecnologiaSalud |-> Null, nomTecnologiaSalud |-> Null,
     diasTratamiento |-> Num(-1), valorUnitarioMedicamento |-> Num(-1),
     valorServicio |-> Num(-1), conceptoRecaudo |-> Str("99")]

\* rec with the fields of F set to their failing values
Break(rec, F, bad) ==
    Obj([k \in DOMAIN rec.f |-> IF k \in F THEN bad[k] ELSE rec.f[k]])
\* the sets of fields broken together: none, one, two, all but one, all
BrokenTogether(bad) ==
    {F \in SUBSET DOMAIN bad :
        Cardinality(F) <= 2 \/ Cardinality(DOMAIN bad \ F) <= 1}
Second(rec) == With(rec, "consecutivo", Num(2))

\* documents whose second record fails in several fields at once, behind a
\* first record that fails in all of them
SuppressionInputs ==
    {GoodDocument(<<Break(GoodUser(1, Services(<<>>, <<>>, <<>>)), DOMAIN UserBad, UserBad),
                    Break(GoodUser(2, Services(<<>>, <<>>, <<>>)), F, UserBad)>>) :
        F \in BrokenTogether(UserBad)}
    \cup
    {GoodDocument(<<GoodUser(1, Services(
            <<Break(GoodConsulta, DOMAIN ConsultaBad, ConsultaBad),
              Break(Second(GoodConsulta), F, ConsultaBad)>>, <<>>, <<>>))>>) :
        F \in BrokenTogether(ConsultaBad)}
    \cup
    {GoodDocument(<<GoodUser(1, Services(<<>>,
            <<Break(GoodProcedimiento, DOMAIN ProcedimientoBad, ProcedimientoBad),
              Break(Second(GoodProcedimiento), F, ProcedimientoBad)>>, <<>>))>>) :
        F \in BrokenTogether(ProcedimientoBad)}
    \cup
    {GoodDocument(<<GoodUser(1, Services(<<>>, <<>>,
            <<Break(GoodMedicamento, DOMAIN MedicamentoBad, MedicamentoBad),
              Break(Second(GoodMedicamento), F, MedicamentoBad)>>))>>) :
        F \in BrokenTogether(MedicamentoBad)}

\* documents with entries that are no objects and fields of unexpected types
MalformedInputs ==
    {GoodDocument(<<u>>) :
        u \in {Null, Undef, Str("x"), Num(3),
               With(GoodUser(1, Services(<<>>, <<>>, <<>>)), "servicios", Str("x")),
               With(GoodUser(1, Services(<<>>, <<>>, <<>>)), "servicios", Null),
               With(GoodUser(1, Services(<<>>, <<>>, <<>>)),
                    "numDocumentoIdentificacion", Num(12345678)),
               With(GoodUser(1, Services(<<>>, <<>>, <<>>)),
                    "codMunicipioResidencia", Num(5001))}}
    \cup
    {GoodDocument(<<GoodUser(1, Services(<<GoodConsulta>>, <<>>, <<>>)), Null>>),
     GoodDocument(<<GoodUser(1, Services(<<Null>>, <<>>, <<>>))>>),
     GoodDocument(<<GoodUser(1, Services(<<GoodConsulta>>, <<Undef>>, <<>>))>>),
     GoodDocument(<<GoodUser(1, Services(<<>>, <<>>, <<GoodMedicamento, Null>>))>>),
     GoodDocument(<<GoodUser(1, Services(<<Str("x")>>, <<Num(1)>>, <<>>))>>),
     GoodDocument(<<GoodUser(1, Services(<<With(GoodConsulta, "codPrestador", Num(9))>>,
                                         <<>>, <<>>))>>)}

ValidatorInputs(now) ==
    StructureInputs \cup AgeInputs(now) \cup MoneyInputs \cup OrderInputs
    \cup SuppressionInputs \cup MalformedInputs

NoOutput == [threw |-> FALSE, errors |-> <<>>]

InitValidate ==
    /\ vNow \in NowChoices
    /\ vDoc \in ValidatorInputs(vNow)
    /\ vOut = NoOutput
    /\ vpc = "ready"
    /\ pc = <<>> /\ input = <<>> /\ local = <<>> /\ response = <<>>
    /\ generations = <<>> /\ refTable = <<>> /\ emr = <<>>
    /\ tReq = <<>> /\ tRes = <<>> /\ tpc = "off"
    /\ SyncOff

\* one call of validateRipsJson(vDoc)
Validate ==
    /\ vpc = "ready"
    /\ vOut' = IF validateThrows(vDoc)
               THEN [threw |-> TRUE, errors |-> <<>>]
               ELSE [threw |-> FALSE, errors |-> validateRipsJson(vDoc, vNow)]
    /\ vpc' = "done"
    /\ UNCHANGED <<vDoc, vNow, pipeVars, treeVars, syncVars>>

NextValidate == Validate
SpecValidate == InitValidate /\ [][NextValidate]_vars

Validated == vpc = "done" /\ ~vOut.threw
vTrans == Get(vDoc, "transaccion")
vUsers == ItemsOf(Get(vTrans, "usuarios"))

IsUserLevel(f) == f.scope.kind = "User"
IsServiceLevel(f) == f.scope.kind \in {"Consulta", "Procedimiento", "Medicamento"}
IsTransactionLevel(f) == f.scope.kind = "Transaction" /\ f.field # "usuarios"
IsStructural(f) ==
    \/ f.scope.kind = "Structure"
    \/ f.scope.kind = "Transaction" /\ f.field = "usuarios"

NoTransaction == ~Truthy(vTrans)
UsuariosNoArray == Truthy(vTrans) /\ Get(vTrans, "usuarios").t # "array"

(* C7 (as claimed): with no transaccion object, or with usuarios not an     *)
(* array, validateRipsJson returns exactly one finding, the structural one, *)
(* and no transaction-level, user-level or service-level finding.           *)
C7_SingleFindingAtGate ==
    (Validated /\ (NoTransaction \/ UsuariosNoArray))
        => /\ Len(vOut.errors) = 1
           /\ IsStructural(vOut.errors[1])

(* C7 (amended): with no transaccion object the result is exactly the one   *)
(* structural finding; with usuarios not an array the result ends with      *)
(* exactly one structural finding on usuarios, holds no user-level or       *)
(* service-level finding, and before it only the transaction-level findings *)
(* on numDocumentoIdObligado, numFactura and tipoNota (at most four).       *)
C7_StructuralGate ==
    /\ (Validated /\ NoTransaction) =>
          /\ Len(vOut.errors) = 1
          /\ vOut.errors[1].scope.kind = "Structure"
          /\ vOut.errors[1].field = "transaccion"
    /\ (Validated /\ UsuariosNoArray) =>
          /\ Len(vOut.errors) \in 1..5
          /\ Len(SelectSeq(vOut.errors, IsStructural)) = 1
          /\ IsStructural(vOut.errors[Len(vOut.errors)])
          /\ SelectSeq(vOut.errors, IsUserLevel) = <<>>
          /\ SelectSeq(vOut.errors, IsServiceLevel) = <<>>
          /\ \A i \in 1..(Len(vOut.errors) - 1) :
                /\ IsTransactionLevel(vOut.errors[i])
                /\ vOut.errors[i].field \in
                      {"numDocumentoIdObligado", "numFactura", "tipoNota"}

\* usuarios is not an array and transaction-level findings precede the
\* structural one
C7_Witness ==
    /\ Validated /\ UsuariosNoArray
    /\ Len(vOut.errors) >= 2
    /\ SelectSeq(vOut.errors, IsTransactionLevel) # <<>>

IsTipoNotaWarning(f) ==
    f.scope.kind = "Transaction" /\ f.field = "tipoNota" /\ f.severity = "warning"
FacturaEmptyOrNull ==
    LET nf == Get(vTrans, "numFactura") IN nf.t = "null" \/ StrIs(nf, "")
FacturaNonEmptyString ==
    LET nf == Get(vTrans, "numFactura") IN nf.t = "string" /\ nf.s # ""

(* C8: validateRipsJson emits a warning on tipoNota whenever numFactura is  *)
(* empty or null and tipoNota is not 'RS' (also when tipoNota is null), and *)
(* none when numFactura is a non-empty string or tipoNota is 'RS'.          *)
C8_TipoNotaWarning ==
    (Validated /\ Truthy(vTrans)) =>
        /\ (FacturaEmptyOrNull /\ ~StrIs(Get(vTrans, "tipoNota"), "RS"))
              => SelectSeq(vOut.errors, IsTipoNotaWarning) # <<>>
        /\ (FacturaNonEmptyString \/ StrIs(Get(vTrans, "tipoNota"), "RS"))
              => SelectSeq(vOut.errors, IsTipoNotaWarning) = <<>>

AgeMessages ==
    {"CC is for >= 18 years old", "TI is for >= 7 years old",
     "TI is invalid for >= 19 years old", "RC is invalid for >= 8 years old",
     "CN is for <= 3 years old", "AS is for > 18 years old", "MS is for minors (<= 18)"}

\* the age-versus-document-type findings returned for the i-th user
AgeFindingsOf(i) ==
    LET IsAgeOf(f) == /\ f.scope = UserScope(vUsers[i], i)
                      /\ f.field = "tipoDocumentoIdentificacion"
                      /\ f.message \in AgeMessages
    IN  SelectSeq(vOut.errors, IsAgeOf)

\* the bands of the claim: the ages a document type does not admit
OutOfBand(docType, a) ==
    \/ docType = "CC" /\ a < 18
    \/ docType = "TI" /\ (a < 7 \/ a >= 19)
    \/ docType = "RC" /\ a >= 8
    \/ docType = "CN" /\ a > 3
    \/ docType = "AS" /\ a <= 18
    \/ docType = "MS" /\ a > 18

vAge(i) == calculateAge(Get(vUsers[i], "fechaNacimiento"), vNow)
vDocType(i) == Get(vUsers[i], "tipoDocumentoIdentificacion")

(* C9: for every user with a computed integer age a >= 0 there is an        *)
(* age-versus-document-type finding exactly when the age is outside the     *)
(* band of the document type (CC a < 18; TI a < 7 or a >= 19; RC a >= 8;    *)
(* CN a > 3; AS a <= 18; MS a > 18), never for another type, and never more *)
(* than one.                                                                *)
C9_AgeBands ==
    Validated =>
        \A i \in 1..Len(vUsers) :
            (vAge(i).t = "number" /\ vAge(i).n >= 0 /\ vDocType(i).t = "string") =>
                Len(AgeFindingsOf(i)) =
                    IF OutOfBand(vDocType(i).s, vAge(i).n) THEN 1 ELSE 0

\* a TI holder of 18 is accepted (the tolerance year)
C9_Witness ==
    /\ Validated
    /\ Len(vUsers) = 1
    /\ StrIs(vDocType(1), "TI") /\ vAge(1) = Num(18)
    /\ AgeFindingsOf(1) = <<>>

\* the monetary fields of each kind of service record (rips/types.ts)
MoneyFields(kind) ==
    CASE kind = "Consulta" -> {"valorPagoModerador", "valorConsulta"}
      [] kind = "Procedimiento" -> {"valorPagoModerador", "valorProcedimiento"}
      [] kind = "Medicamento" ->
            {"valorPagoModerador", "valorUnitarioMedicamento", "valorServicio"}
ArrayOfKind(kind) ==
    CASE kind = "Consulta" -> "consultas"
      [] kind = "Procedimiento" -> "procedimientos"
      [] kind = "Medicamento" -> "medicamentos"

(* C10: for every service record of every kind, each monetary field of the  *)
(* record that holds a negative number yields a 'Cannot be negative'        *)
(* finding for that field.                                                  *)
C10_NegativeMoneyReported ==
    Validated =>
        \A u \in 1..Len(vUsers) :
          \A kind \in {"Consulta", "Procedimiento", "Medicamento"} :
            LET items == ItemsOf(Get(Get(vUsers[u], "servicios"), ArrayOfKind(kind))) IN
            \A i \in 1..Len(items) :
              \A field \in MoneyFields(kind) :
                Negative(Get(items[i], field)) =>
                    \E k \in 1..Len(vOut.errors) :
                        /\ vOut.errors[k].scope =
                              ItemScope(kind, UserScope(vUsers[u], u), items[i], i)
                        /\ vOut.errors[k].field = field
                        /\ vOut.errors[k].message = "Cannot be negative"


\* the place of a finding in the traversal of the document: <<0, 0, 0>> for
\* the transaction, <<u, 0, 0>> for user u, <<u, k, i>> for the i-th item of
\* the k-th service kind of user u
KindRank(kind) ==
    CASE kind = "Consulta" -> 1 [] kind = "Procedimiento" -> 2
      [] kind = "Medicamento" -> 3 [] OTHER -> 0
KindArray(kind) ==
    CASE kind = "Consulta" -> "consultas" [] kind = "Procedimiento" -> "procedimientos"
      [] OTHER -> "medicamentos"
UserIndexOf(scope) ==
    CHOOSE u \in 1..Len(vUsers) : UserScope(vUsers[u], u).user = scope.user
ItemIndexOf(scope) ==
    LET u == UserIndexOf(scope)
        items == ItemsOf(Get(Get(vUsers[u], "servicios"), KindArray(scope.kind)))
    IN  CHOOSE i \in 1..Len(items) :
            ItemScope(scope.kind, UserScope(vUsers[u], u), items[i], i).item = scope.item
TraversalRank(f) ==
    IF f.scope.kind \in {"Structure", "Transaction"} THEN <<0, 0, 0>>
    ELSE IF f.scope.kind = "User" THEN <<UserIndexOf(f.scope), 0, 0>>
    ELSE <<UserIndexOf(f.scope), KindRank(f.scope.kind), ItemIndexOf(f.scope)>>
RankLeq(a, b) ==
    \/ a[1] < b[1]
    \/ a[1] = b[1] /\ a[2] < b[2]
    \/ a[1] = b[1] /\ a[2] = b[2] /\ a[3] <= b[3]
\* the scopes tell the users, and the items of each list, apart
ScopesDistinct ==
    /\ \A u, w \in 1..Len(vUsers) :
          u # w => UserScope(vUsers[u], u).user # UserScope(vUsers[w], w).user
    /\ \A u \in 1..Len(vUsers) : \A kind \in {"Consulta", "Procedimiento", "Medicamento"} :
          LET items == ItemsOf(Get(Get(vUsers[u], "servicios"), KindArray(kind))) IN
          \A i, j \in 1..Len(items) :
              i # j => ItemScope(kind, UserScope(vUsers[u], u), items[i], i).item
                       # ItemScope(kind, UserScope(vUsers[u], u), items[j], j).item

\* C11: the findings come in document traversal order: transaction findings,
\* then the users in array order, and within a user its own findings, then
\* those of its consultations, procedures and medications, each in array
\* order (for documents whose scopes tell the records apart).
C11_TraversalOrder ==
    (Validated /\ ScopesDistinct) =>
        \A p \in 1..(Len(vOut.errors) - 1) :
            RankLeq(TraversalRank(vOut.errors[p]), TraversalRank(vOut.errors[p + 1]))

\* two users, both with findings of their own and in all three service kinds,
\* behind transaction findings
C11_Witness ==
    /\ Validated /\ ScopesDistinct /\ Len(vUsers) = 2
    /\ \A u \in 1..2 : \A k \in 0..3 :
          \E p \in 1..Len(vOut.errors) :
              /\ TraversalRank(vOut.errors[p])[1] = u
              /\ TraversalRank(vOut.errors[p])[2] = k
    /\ \E p \in 1..Len(vOut.errors) : vOut.errors[p].scope.kind = "Transaction"


\* the fields of a record that hold their failing value, and the fields the
\* findings of a scope name
BrokenFields(rec, bad) == {k \in DOMAIN bad : Get(rec, k) = bad[k]}
ReportedFields(scope) ==
    {vOut.errors[p].field : p \in {q \in 1..Len(vOut.errors) : vOut.errors[q].scope = scope}}
BadOf(kind) ==
    CASE kind = "Consulta" -> ConsultaBad [] kind = "Procedimiento" -> ProcedimientoBad
      [] OTHER -> MedicamentoBad
ItemsOfKind(u, kind) == ItemsOf(Get(Get(vUsers[u], "servicios"), KindArray(kind)))
AllReported(u) ==
    /\ BrokenFields(vUsers[u], UserBad) \subseteq ReportedFields(UserScope(vUsers[u], u))
    /\ \A kind \in {"Consulta", "Procedimiento", "Medicamento"} :
          \A i \in 1..Len(ItemsOfKind(u, kind)) :
              BrokenFields(ItemsOfKind(u, kind)[i], BadOf(kind))
                 \subseteq ReportedFields(ItemScope(kind, UserScope(vUsers[u], u),
                                                    ItemsOfKind(u, kind)[i], i))

\* C12: behind the structural gate every user and every consultation,
\* procedure and medication is visited, and each field of a record that fails
\* its check has its own finding, whichever other fields of the record and
\* whichever earlier records fail too.
C12_NoSuppression ==
    Validated => \A u \in 1..Len(vUsers) : AllReported(u)

\* a second record failing in at least six fields at once behind a first
\* one that fails in every field
C12_Witness ==
    /\ Validated /\ vDoc \in SuppressionInputs
    /\ \E u \in 1..Len(vUsers) :
          \/ u = 2 /\ Cardinality(BrokenFields(vUsers[u], UserBad)) >= 6
          \/ \E kind \in {"Consulta", "Procedimiento", "Medicamento"} :
                /\ Len(ItemsOfKind(u, kind)) = 2
                /\ Cardinality(BrokenFields(ItemsOfKind(u, kind)[2], BadOf(kind))) >= 6


\* C13: validateRipsJson never raises: for every document it returns
\* findings, each tagged error or warning.
C13_NeverRaises ==
    vpc = "done" =>
        /\ ~vOut.threw
        /\ \A p \in 1..Len(vOut.errors) : vOut.errors[p].severity \in {"error", "warning"}

(***************************************************************************)
(* Direct Pipeline: the mappers (rips/mappers) and generateProcedure       *)
(***************************************************************************)
\* row.k for a database row (a record of JavaScript values)
Field(row, k) == IF k \in DOMAIN row THEN row[k] ELSE Undef

\* select(cols): the row restricted to the selected columns
Project(row, cols) == [k \in cols \cap DOMAIN row |-> row[k]]

\* new Date(d).toISOString(): a RangeError for an Invalid Date
ToISOString(d) ==
    CASE d.t = "date" /\ d.s = "" -> IsoDate(d.n)
      [] d.t = "string" /\ d.s = IsoText -> IsoDate(d.n)
      [] d.t = "number" -> IsoDate(d.n \div MsPerQuarterDay)
      [] d.t = "null" -> IsoDate(0)
      [] OTHER -> Raised

\* iso.split('T')[0]: the date part, midnight UTC when read back
DatePart(iso) == IF iso.t = "raised" THEN Raised ELSE IsoDate(4 * (iso.n \div 4))

\* Number(v) || 0 for the values the queries return
NumberOrZero(v) == IF v.t = "number" THEN v ELSE Num(0)

\* mapTransaction(facilityEIN, invoiceNumber, users)
mapTransaction(facilityEIN, invoiceNumber, users) ==
    Obj([numDocumentoIdObligado |-> OrElse(facilityEIN, Str("")),
         numFactura |-> invoiceNumber,
         tipoNota |-> Null,
         numNota |-> Null,
         usuarios |-> Arr(users)])

\* mapUser(patient, selectionUserType, incapacidad, consecutive, services)
mapUser(patient, selectionUserType, incapacidad, consecutive, services) ==
    LET userType == OrElse(Field(patient, "user_type"), OrElse(selectionUserType, Str("")))
        fechaNacimiento == IF Truthy(Field(patient, "DOB"))
                           THEN DatePart(ToISOString(Field(patient, "DOB")))
                           ELSE Str("")
    IN  Obj([tipoDocumentoIdentificacion |-> OrElse(Field(patient, "document_type"), Str("CC")),
             numDocumentoIdentificacion |-> OrElse(Field(patient, "ss"), Str("")),
             tipoUsuario |-> userType,
             fechaNacimiento |-> IF fechaNacimiento.t = "raised" THEN Raised
                                 ELSE OrElse(fechaNacimiento, Str("")),
             codSexo |-> OrElse(Field(patient, "sex"), Str("")),
             codPaisResidencia |-> OrElse(Field(patient, "country_code"), Str("170")),
             codMunicipioResidencia |-> OrElse(Field(patient, "city"), Str("")),
             incapacidad |-> OrElse(incapacidad, Str("NO")),
             consecutivo |-> Num(consecutive),
             servicios |-> services])

\* getProvider(providerId, providerMap): the provider row, <<>> for undefined
getProvider(providerId, providers) ==
    IF Truthy(providerId)
    THEN SelectSeq(providers, LAMBDA p : p.id = providerId)
    ELSE <<>>

\* provider ? (provider.federaltaxid || provider.npi || "") : ""
ProviderDocument(found) ==
    IF found = <<>> THEN Str("")
    ELSE LET provider == found[Len(found)] IN
         OrElse(Field(provider, "federaltaxid"), OrElse(Field(provider, "npi"), Str("")))

\* diagnoses.length > k ? (diagnoses[k]?.code || "") : ""   (k counted from 0)
DiagnosisCode(diagnoses, k) ==
    IF Len(diagnoses) > k THEN OrElse(Field(diagnoses[k + 1], "code"), Str("")) ELSE Str("")

\* v ? new Date(v).toISOString() : ""
IsoOrEmpty(v) == IF Truthy(v) THEN ToISOString(v) ELSE Str("")

\* the mapper filling codConsulta with a CUPS code
mapConsultation_MutCoded(enc, facilityEIN, diagnoses, providers, consecutive) ==
    Obj([codPrestador |-> OrElse(facilityEIN, Str("")),
         fechaInicioAtencion |-> IsoOrEmpty(Field(enc, "date")),
         numAutorizacion |-> Str(""),
         codConsulta |-> Str("890201"),
         modalidadGrupoServicio |-> Str("01"),
         grupoServicios |-> Str("01"),
         codServicio |-> Str("348"),
         finalidadTecnologiaSalud |-> Str("10"),
         causaMotivoAtencion |-> Str("38"),
         codDiagnosticoPrincipal |-> DiagnosisCode(diagnoses, 0),
         codDiagnosticoRelacionado1 |-> DiagnosisCode(diagnoses, 1),
         codDiagnosticoRelacionado2 |-> DiagnosisCode(diagnoses, 2),
         codDiagnosticoRelacionado3 |-> DiagnosisCode(diagnoses, 3),
         tipoDiagnosticoPrincipal |-> Str("01"),
         tipoDocumentoIdentificacion |-> Str("CC"),
         numDocumentoIdentificacion |->
            ProviderDocument(getProvider(Field(enc, "provider_id"), providers)),
         valorPagoModerador |-> Num(0),
         valorConsulta |-> Num(0),
         conceptoRecaudo |-> Str("05"),
         numFEVPagoModerador |-> Str(""),
         consecutivo |-> Num(consecutive)])

mapConsultation(enc, facilityEIN, diagnoses, providers, consecutive) ==
    Obj([codPrestador |-> OrElse(facilityEIN, Str("")),
         fechaInicioAtencion |-> IsoOrEmpty(Field(enc, "date")),
         numAutorizacion |-> Str(""),
         codConsulta |-> Str(""),
         modalidadGrupoServicio |-> Str("01"),
         grupoServicios |-> Str("01"),
         codServicio |-> Str("348"),
         finalidadTecnologiaSalud |-> Str("10"),
         causaMotivoAtencion |-> Str("38"),
         codDiagnosticoPrincipal |-> DiagnosisCode(diagnoses, 0),
         codDiagnosticoRelacionado1 |-> DiagnosisCode(diagnoses, 1),
         codDiagnosticoRelacionado2 |-> DiagnosisCode(diagnoses, 2),
         codDiagnosticoRelacionado3 |-> DiagnosisCode(diagnoses, 3),
         tipoDiagnosticoPrincipal |-> Str("01"),
         tipoDocumentoIdentificacion |-> Str("CC"),
         numDocumentoIdentificacion |->
            ProviderDocument(getProvider(Field(enc, "provider_id"), providers)),
         valorPagoModerador |-> Num(0),
         valorConsulta |-> Num(0),
         conceptoRecaudo |-> Str("05"),
         numFEVPagoModerador |-> Str(""),
         consecutivo |-> Num(consecutive)])

mapProcedure(proc, enc, facilityEIN, diagnoses, providers, consecutive) ==
    Obj([codPrestador |-> OrElse(facilityEIN, Str("")),
         fechaInicioAtencion |-> IF Truthy(Field(proc, "date"))
                                 THEN ToISOString(Field(proc, "date"))
                                 ELSE IsoOrEmpty(Field(enc, "date")),
         idMIPRES |-> Null,
         numAutorizacion |-> Str(""),
         codProcedimiento |-> OrElse(Field(proc, "code"), Str("")),
         viaIngresoServicio |-> Str("01"),
         modalidadGrupoServicio |-> Str("01"),
         grupoServicios |-> Str("01"),
         codServicio |-> Str("348"),
         finalidadTecnologiaSalud |-> Str("44"),
         tipoDocumentoIdentificacion |-> Str("CC"),
         numDocumentoIdentificacion |->
            ProviderDocument(getProvider(Field(enc, "provider_id"), providers)),
         codDiagnosticoPrincipal |-> DiagnosisCode(diagnoses, 0),
         codDiagnosticoRelacionado |-> DiagnosisCode(diagnoses, 1),
         codComplicacion |-> Str(""),
         valorPagoModerador |-> Num(0),
         valorProcedimiento |-> NumberOrZero(Field(proc, "fee")),
         conceptoRecaudo |-> Str("05"),
         numFEVPagoModerador |-> Str(""),
         consecutivo |-> Num(consecutive)])

\* Math.ceil(Math.abs(end - start) / one day) when both dates are set, else 0
DiasTratamiento(med) ==
    LET a == Field(med, "start_date")
        b == Field(med, "end_date")
        diff == IF b.n >= a.n THEN b.n - a.n ELSE a.n - b.n
    IN  IF Truthy(a) /\ Truthy(b)
        THEN IF a.s = "invalid" \/ b.s = "invalid" THEN NaN ELSE Num((diff + 3) \div 4)
        ELSE Num(0)

mapMedication(med, enc, facilityEIN, diagnoses, providers, consecutive) ==
    LET own == getProvider(Field(med, "provider_id"), providers)
        medProvider == IF own # <<>> THEN own
                       ELSE getProvider(Field(enc, "provider_id"), providers)
    IN
    Obj([codPrestador |-> OrElse(facilityEIN, Str("")),
         numAutorizacion |-> Str(""),
         idMIPRES |-> Null,
         fechaDispencr |-> IF Truthy(Field(med, "start_date"))
                           THEN ToISOString(Field(med, "start_date"))
                           ELSE IsoOrEmpty(Field(enc, "date")),
         codDiagnosticoPrincipal |-> DiagnosisCode(diagnoses, 0),
         codDiagnosticoRelacionado |-> DiagnosisCode(diagnoses, 1),
         tipoMedicamento |-> Str("01"),
         codTecnologiaSalud |-> OrElse(Field(med, "rxnorm_drugcode"), Str("")),
         nomTecnologiaSalud |-> OrElse(Field(med, "drug"), Str("")),
         concentracionMedicamento |-> Num(0),
         unidadMedida |-> Str(""),
         formaFarmaceutica |-> Str(""),
         unidadMinDispensacion |-> Str(""),
         cantidadMedicamento |-> NumberOrZero(Field(med, "quantity")),
         diasTratamiento |-> DiasTratamiento(med),
         tipoDocumentoIdentificacion |-> Str("CC"),
         numDocumentoIdentificacion |-> ProviderDocument(medProvider),
         valorPagoModerador |-> Num(0),
         valorUnitarioMedicamento |-> Num(0),
         valorServicio |-> Num(0),
         conceptoRecaudo |-> Str("05"),
         numFEVPagoModerador |-> Str(""),
         consecutivo |-> Num(consecutive)])

\* ---- the queries of openemr/queries.ts over the database `db` ----
InList(v, list) == \E i \in 1..Len(list) : list[i] = v
ProjectAll(rows, cols) == [i \in 1..Len(rows) |-> Project(rows[i], cols)]

\* getFacilities(): selectAll().limit(1)
getFacilities(db) == SubSeq(db.facility, 1, IF Len(db.facility) > 0 THEN 1 ELSE 0)

\* getPatientsRipsData(patientIds)
getPatientsRipsData(db, patientIds) ==
    ProjectAll(SelectSeq(db.patient_data, LAMBDA r : InList(r.pid, patientIds)),
               {"pid", "DOB", "sex", "ss", "country_code", "city", "document_type",
                "user_type"})

\* getEncountersForPatients(patientIds): every encounter of those patients
getEncountersForPatients(db, patientIds) ==
    ProjectAll(SelectSeq(db.form_encounter, LAMBDA r : InList(r.pid, patientIds)),
               {"id", "date", "encounter", "pid", "invoice_refno", "provider_id"})

\* the four batch queries: empty for an empty id list, else `encounter in ids`
ByEncounter(rows, ids, cols) ==
    IF Len(ids) = 0 THEN <<>>
    ELSE ProjectAll(SelectSeq(rows, LAMBDA r : InList(r.encounter, ids)), cols)
getBillingOptionsByEncounterIds(db, ids) ==
    ByEncounter(db.form_misc_billing_options, ids, {"encounter", "is_unable_to_work"})
getBillingRecords(db, ids) ==
    ByEncounter(db.billing, ids, {"encounter", "code_type", "code", "fee", "date"})
getPrescriptions(db, ids) ==
    ByEncounter(db.prescriptions, ids,
                {"encounter", "rxnorm_drugcode", "drug", "quantity", "unit", "start_date"})
getProvidersByIds(db, ids) ==
    IF Len(ids) = 0 THEN <<>>
    ELSE ProjectAll(SelectSeq(db.users, LAMBDA r : InList(r.id, ids)),
                    {"id", "federaltaxid", "npi"})

\* ---- generateProcedure, the synchronous part after the fetches ----
\* map.get(key) for a Map built from rows keyed by column `col`: the last
\* row set under the key, <<>> when there is none
MapGet(rows, col, key) ==
    LET hits == SelectSeq(rows, LAMBDA r : r[col] = key) IN
    IF hits = <<>> THEN <<>> ELSE <<hits[Len(hits)]>>

\* resolving the first selected id only
ResolveEncounters_MutFirst(encounters, ids) ==
    IF ids = <<>> THEN <<>> ELSE MapGet(encounters, "id", ids[1])

\* selection.encounterIds.map(id => encounterMap.get(id)).filter(e => e !== undefined)
ResolveEncounters(encounters, ids) ==
    Flatten([i \in 1..Len(ids) |-> MapGet(encounters, "id", ids[i])])

RECURSIVE Collect(_, _, _)
\* the encounter numbers (col "encounter") or provider ids (col "provider_id")
\* pushed by the loop over all selections, where truthy
Collect(encounters, selections, col) ==
    IF selections = <<>> THEN <<>>
    ELSE LET encs == ResolveEncounters(encounters, Head(selections).encounterIds) IN
         Flatten([i \in 1..Len(encs) |->
                    IF Truthy(encs[i][col]) THEN <<encs[i][col]>> ELSE <<>>])
         \o Collect(encounters, Tail(selections), col)

\* everything the handler holds when it starts building (lines 53-132)
Fetched(db, selections, siOption, noOption) ==
    LET patientIds == [i \in 1..Len(selections) |-> selections[i].patientId]
        encounters == getEncountersForPatients(db, patientIds)
        numbers == Collect(encounters, selections, "encounter")
        providerIds == Collect(encounters, selections, "provider_id")
    IN  [facility |-> getFacilities(db)[1],
         patients |-> getPatientsRipsData(db, patientIds),
         encounters |-> encounters,
         billingOptions |-> SelectSeq(getBillingOptionsByEncounterIds(db, numbers),
                                      LAMBDA o : Truthy(o.encounter)),
         billingRecords |-> SelectSeq(getBillingRecords(db, numbers),
                                      LAMBDA r : Truthy(r.encounter)),
         prescriptions |-> SelectSeq(getPrescriptions(db, numbers),
                                     LAMBDA r : Truthy(r.encounter)),
         providers |-> getProvidersByIds(db, providerIds),
         siOption |-> siOption,
         noOption |-> noOption]

RECURSIVE Incapacidad(_, _)
\* the loop of lines 153-163 over the resolved ids of one selection
Incapacidad(ctx, ids) ==
    IF ids = <<>> THEN ctx.noOption
    ELSE LET enc == MapGet(ctx.encounters, "id", Head(ids)) IN
         IF enc = <<>> \/ ~Truthy(enc[1].encounter) THEN Incapacidad(ctx, Tail(ids))
         ELSE LET isUnable == MapGet(ctx.billingOptions, "encounter", enc[1].encounter) IN
              IF isUnable # <<>> /\ isUnable[1].is_unable_to_work = Num(1)
              THEN ctx.siOption
              ELSE Incapacidad(ctx, Tail(ids))

EmptyServices == [consultas |-> <<>>, procedimientos |-> <<>>, medicamentos |-> <<>>]

\* services.<kind>.length + 1
NextItemNumber(list) == Len(list) + 1

RECURSIVE PushProcedures(_, _, _, _, _, _)
\* for (const proc of procedures) services.procedimientos.push(mapProcedure(...))
PushProcedures(list, procedures, enc, ein, diagnoses, providers) ==
    IF procedures = <<>> THEN list
    ELSE PushProcedures(
            Append(list, mapProcedure(Head(procedures), enc, ein, diagnoses, providers,
                                      NextItemNumber(list))),
            Tail(procedures), enc, ein, diagnoses, providers)

RECURSIVE PushMedications(_, _, _, _, _, _)
\* for (const med of presItems) services.medicamentos.push(mapMedication(...))
PushMedications(list, presItems, enc, ein, diagnoses, providers) ==
    IF presItems = <<>> THEN list
    ELSE PushMedications(
            Append(list, mapMedication(Head(presItems), enc, ein, diagnoses, providers,
                                       NextItemNumber(list))),
            Tail(presItems), enc, ein, diagnoses, providers)

RECURSIVE MapEncounters(_, _, _)
\* the loop of lines 176-204 over patientEncounters
MapEncounters(ctx, encs, services) ==
    IF encs = <<>> THEN services
    ELSE LET enc == Head(encs) IN
         IF ~Truthy(enc.encounter) THEN MapEncounters(ctx, Tail(encs), services)
         ELSE
         LET ein == Field(ctx.facility, "federal_ein")
             billingItems == SelectSeq(ctx.billingRecords,
                                       LAMBDA r : r.encounter = enc.encounter)
             presItems == SelectSeq(ctx.prescriptions,
                                    LAMBDA r : r.encounter = enc.encounter)
             diagnoses == SelectSeq(billingItems, LAMBDA b : b.code_type = Str("RIPS"))
             procedures == SelectSeq(billingItems, LAMBDA b : b.code_type = Str("4"))
         IN  MapEncounters(ctx, Tail(encs),
                [consultas |->
                    Append(services.consultas,
                           mapConsultation(enc, OrElse(ein, Str("")), diagnoses,
                                           ctx.providers,
                                           NextItemNumber(services.consultas))),
                 procedimientos |->
                    PushProcedures(services.procedimientos, procedures, enc,
                                   OrElse(ein, Str("")), diagnoses, ctx.providers),
                 medicamentos |->
                    PushMedications(services.medicamentos, presItems, enc,
                                    OrElse(ein, Str("")), diagnoses, ctx.providers)])

\* a selection is skipped when its patient or all its encounters are unresolved
Skipped(ctx, selection) ==
    \/ MapGet(ctx.patients, "pid", selection.patientId) = <<>>
    \/ ResolveEncounters(ctx.encounters, selection.encounterIds) = <<>>

UserConsecutive_MutIndex(userConsecutive, index) == index

\* the consecutive handed to mapUser: userConsecutive++ (index: the place of
\* the selection in the input)
UserConsecutive(userConsecutive, index) == userConsecutive

RECURSIVE BuildUsers(_, _, _, _, _)
\* the loop of lines 142-210: ripsUsers after the selections from index i on
BuildUsers(ctx, selections, i, ripsUsers, userConsecutive) ==
    IF i > Len(selections) THEN ripsUsers
    ELSE IF Skipped(ctx, selections[i])
         THEN BuildUsers(ctx, selections, i + 1, ripsUsers, userConsecutive)
         ELSE
         LET selection == selections[i]
             patient == MapGet(ctx.patients, "pid", selection.patientId)[1]
             built == MapEncounters(ctx,
                         ResolveEncounters(ctx.encounters, selection.encounterIds),
                         EmptyServices)
             user == mapUser(patient, selection.userType,
                             Incapacidad(ctx, selection.encounterIds),
                             UserConsecutive(userConsecutive, i),
                             Services(built.consultas, built.procedimientos,
                                      built.medicamentos))
         IN  BuildUsers(ctx, selections, i + 1, Append(ripsUsers, user),
                        userConsecutive + 1)

\* numFactura: invoice_refno of the first encounter id of the first selection
NumFactura(ctx, selections) ==
    IF selections = <<>> \/ selections[1].encounterIds = <<>> THEN Str("")
    ELSE LET enc == MapGet(ctx.encounters, "id", selections[1].encounterIds[1]) IN
         IF enc = <<>> THEN Str("") ELSE OrElse(enc[1].invoice_refno, Str(""))

\* ripsJson (lines 139-226)
RipsJson(ctx, selections) ==
    Document(mapTransaction(OrElse(Field(ctx.facility, "federal_ein"), Str("")),
                            NumFactura(ctx, selections),
                            BuildUsers(ctx, selections, 1, <<>>, 1)))

\* a mapper raised while the document was built (toISOString of an Invalid Date)
ItemRaised(item) ==
    \E k \in {"fechaNacimiento", "fechaInicioAtencion", "fechaDispencr"} :
        Get(item, k).t = "raised"
BuildRaised(json) ==
    LET us == ItemsOf(Get(Get(json, "transaccion"), "usuarios")) IN
    \E u \in 1..Len(us) :
        \/ ItemRaised(us[u])
        \/ \E k \in {"consultas", "procedimientos", "medicamentos"} :
             LET items == ItemsOf(Get(Get(us[u], "servicios"), k)) IN
             \E i \in 1..Len(items) : ItemRaised(items[i])

(***************************************************************************)
(* The data the generation calls run against                               *)
(***************************************************************************)
Patient(pid, dob, docType, ss, userType) ==
    [pid |-> Num(pid), DOB |-> dob, sex |-> Str("F"), ss |-> ss,
     country_code |-> Str("170"), city |-> Str("05001"),
     document_type |-> docType, user_type |-> userType, fname |-> Str("n")]
Encounter(id, pid, number, date, invoice, provider) ==
    [id |-> Num(id), pid |-> Num(pid), encounter |-> Num(number), date |-> date,
     invoice_refno |-> invoice, provider_id |-> provider, reason |-> Str("")]
Billing(number, codeType, code, fee, date) ==
    [encounter |-> Num(number), code_type |-> Str(codeType), code |-> Str(code),
     fee |-> fee, date |-> date, billed |-> Num(0)]
Prescription(number, drug, start, end) ==
    [encounter |-> Num(number), rxnorm_drugcode |-> Str("RX1"), drug |-> Str(drug),
     quantity |-> Num(2), unit |-> Num(1), start_date |-> start, end_date |-> end,
     provider_id |-> Num(5)]

\* one facility; patients 1 (complete), 2 (zero date of birth), 3 (sparse);
\* encounters 11, 12, 13 (encounter number 0) of patient 1, 21 of patient 2,
\* 31 of patient 3
Emr ==
    [facility |-> <<[id |-> Num(3), federal_ein |-> Str("900123456001")]>>,
     patient_data |->
        <<Patient(1, DateObj(36000), Str("CC"), Str("12345678"), Str("01")),
          Patient(2, InvalidDate, Str("CC"), Str("1234"), Str("01")),
          Patient(3, Null, Null, Null, Null)>>,
     form_encounter |->
        <<Encounter(11, 1, 101, DateObj(79001), Str("FV-1"), Num(5)),
          Encounter(12, 1, 102, DateObj(79006), Null, Null),
          Encounter(13, 1, 0, DateObj(79010), Null, Num(5)),
          Encounter(21, 2, 201, DateObj(79003), Null, Num(5)),
          Encounter(31, 3, 301, Null, Null, Num(6))>>,
     form_misc_billing_options |->
        <<[encounter |-> Num(101), is_unable_to_work |-> Num(1)],
          [encounter |-> Num(102), is_unable_to_work |-> Num(0)],
          [encounter |-> Num(301), is_unable_to_work |-> Num(1)],
          [encounter |-> Num(301), is_unable_to_work |-> Num(0)]>>,
     billing |->
        <<Billing(101, "RIPS", "J00", Null, DateObj(79001)),
          Billing(101, "4", "903841", Num(10), DateObj(79002)),
          Billing(101, "RIPS", "J01", Null, DateObj(79001)),
          Billing(101, "4", "890201", Num(-3), Null),
          Billing(102, "4", "903842", Null, DateObj(79006)),
          Billing(301, "COPAY", "", Num(4), Null)>>,
     prescriptions |->
        <<Prescription(101, "drug-a", DateObj(79001), DateObj(79014)),
          Prescription(301, "drug-b", Null, Null),
          Prescription(301, "drug-c", DateObj(79100), DateObj(79090))>>,
     users |->
        <<[id |-> Num(5), federaltaxid |-> Str("1234"), npi |-> Str("99"),
           username |-> Str("doc")],
          [id |-> Num(6), federaltaxid |-> Null, npi |-> Null, username |-> Str("x")]>>]

\* the database without any facility row
EmrNoFacility == [Emr EXCEPT !.facility = <<>>]
EmrChoices == {Emr, EmrNoFacility}

\* ---- ReferenceRecord rows of table RIPSIncapacidad ----
RefRow(codigo, nombre, extraI, habilitado, externalId) ==
    [codigo |-> Str(codigo), nombre |-> Str(nombre), extraI |-> extraI,
     habilitado |-> habilitado, externalId |-> externalId]
\* the two rows ensureRipsIncapacidadOptions creates
DefaultIncapacidadRows ==
    <<RefRow("SI", "Si", Str("1"), TRUE, 1), RefRow("NO", "No", Str("0"), TRUE, 2)>>
RefTableChoices == {<<>>, DefaultIncapacidadRows}
\* tables an administrator configured: the affirmative option renamed and
\* the negative one disabled; the affirmative option without extraI and the
\* negative one renamed
ConfiguredRefTables ==
    {<<RefRow("INCAP", "Incapacitado", Str("1"), TRUE, 1),
       RefRow("NO", "No", Str("0"), FALSE, 2)>>,
     <<RefRow("SI", "Si", Null, TRUE, 1), RefRow("N", "Ninguna", Str("0"), TRUE, 2)>>}

\* getRipIncapacidades(): the enabled rows
getRipIncapacidades(rows) == SelectSeq(rows, LAMBDA r : r.habilitado)

\* incapOptions.find(o => o.extraI === flag)?.codigo || fallback
IncapOption(options, flag, fallback) ==
    LET hits == SelectSeq(options, LAMBDA o : o.extraI = Str(flag)) IN
    IF hits = <<>> THEN Str(fallback) ELSE OrElse(hits[1].codigo, Str(fallback))

\* ---- the selections a call is given ----
Selection(pid, ids) ==
    [patientId |-> Num(pid), encounterIds |-> [i \in 1..Len(ids) |-> Num(ids[i])],
     userType |-> Undef]

\* number of concurrent generation calls
NumCalls == 2
\* most selections in one call of the single-call specification
MaxSelections == 2

\* patient ids a selection may name (9 is no patient)
PatientIdChoices == {1, 2, 3, 9}
\* encounter id lists a selection may name (99 is no encounter)
EncounterListChoices ==
    {<<>>, <<11>>, <<11, 12>>, <<13, 11>>, <<12, 31>>, <<99>>, <<21>>}
SelectionChoices ==
    {Selection(p, ids) : p \in PatientIdChoices, ids \in EncounterListChoices}

RECURSIVE SeqsUpTo(_, _)
\* the sequences over S of length at most n
SeqsUpTo(S, n) ==
    IF n = 0 THEN {<<>>}
    ELSE LET shorter == SeqsUpTo(S, n - 1) IN
         shorter \cup {Append(q, x) : q \in shorter, x \in S}

\* inputs of the single-call specification
PipelineInputs == SeqsUpTo(SelectionChoices, MaxSelections)
\* a selection whose only encounter has the encounter number 0
NumberlessInputs == {<<Selection(1, <<13>>)>>}
\* inputs of the concurrent specification: one resolved patient, a patient
\* whose date of birth is a zero date, an unresolved patient before a
\* resolved one
ConcurrentInputs ==
    {<<Selection(1, <<11>>)>>, <<Selection(2, <<21>>)>>,
     <<Selection(9, <<11>>), Selection(1, <<12>>)>>}

(***************************************************************************)
(* Spec, SpecPipeline: the generation calls of ripsRouter.generate, one    *)
(* action per await of generateProcedure                                   *)
(***************************************************************************)
Calls == DOMAIN pc

NoLocal == [count |-> 0, siOption |-> Str(""), noOption |-> Str(""),
            recordId |-> 0, order |-> 0]
Pending == [status |-> "pending", json |-> Null, filename |-> <<>>, consecutivo |-> 0,
            validationErrors |-> <<>>, error |-> ""]
\* the catch returning what was built so far instead of rethrowing
Thrown_MutReturn(message) ==
    [Pending EXCEPT !.status = "ok", !.error = message,
                    !.json = Obj([transaccion |-> Obj([usuarios |-> Arr(<<>>)])])]
Thrown(message) == [Pending EXCEPT !.status = "error", !.error = message]

\* the id an auto-incrementing primary key gives the next row
AllocateId(rows) ==
    IF rows = <<>> THEN 1
    ELSE 1 + (CHOOSE m \in {rows[i].id : i \in 1..Len(rows)} :
                 \A i \in 1..Len(rows) : rows[i].id <= m)

\* createRipsGenerationRecord(patientCount, fileName): the table afterwards
createRipsGenerationRecord(rows, patientCount, fileName) ==
    Append(rows, [id |-> AllocateId(rows), patientCount |-> patientCount,
                  fileName |-> fileName])

ConsecutivoFile_MutCount(generationRecord) == generationRecord.patientCount

\* const consecutivoFile = generationRecord.id
ConsecutivoFile(generationRecord) == generationRecord.id

\* `RIPS_${consecutivoFile}.json`
Filename(consecutivoFile) == <<"RIPS_", consecutivoFile, ".json">>

InitCalls(calls, inputs, tables) ==
    /\ input \in [calls -> inputs]
    /\ pc = [c \in calls |-> "facility"]
    /\ local = [c \in calls |-> NoLocal]
    /\ response = [c \in calls |-> Pending]
    /\ generations = <<>>
    /\ refTable \in tables
    /\ emr \in EmrChoices
    /\ vNow = CHOOSE n \in NowChoices : \A m \in NowChoices : n <= m
    /\ vDoc = Null /\ vOut = NoOutput /\ vpc = "off"
    /\ tReq = <<>> /\ tRes = <<>> /\ tpc = "off"
    /\ SyncOff

Init == InitCalls(1..NumCalls, ConcurrentInputs, RefTableChoices)
\* a single call: every input over the empty and the seeded table, the
\* single selections over the configured tables
InitPipeline ==
    \/ InitCalls({1}, PipelineInputs \cup NumberlessInputs, RefTableChoices)
    \/ InitCalls({1}, {<<x>> : x \in SelectionChoices}, ConfiguredRefTables)

Goto(c, label) == pc' = [pc EXCEPT ![c] = label]
Throw(c, message) ==
    /\ pc' = [pc EXCEPT ![c] = "failed"]
    /\ response' = [response EXCEPT ![c] = Thrown(message)]

\* await getFacilities(); no facility: throw
GetFacility(c) ==
    /\ pc[c] = "facility"
    /\ IF getFacilities(emr) = <<>>
       THEN Throw(c, "Facility with ID 1 not found. Cannot generate RIPS.")
       ELSE Goto(c, "patients") /\ UNCHANGED response
    /\ UNCHANGED <<input, local, generations, refTable, emr, valVars, treeVars, syncVars>>

\* await getPatientsRipsData(patientIds)
FetchPatients(c) ==
    /\ pc[c] = "patients"
    /\ Goto(c, "encounters")
    /\ UNCHANGED <<input, local, response, generations, refTable, emr, valVars, treeVars, syncVars>>

\* await getEncountersForPatients(patientIds)
FetchEncounters(c) ==
    /\ pc[c] = "encounters"
    /\ Goto(c, "ensureCount")
    /\ UNCHANGED <<input, local, response, generations, refTable, emr, valVars, treeVars, syncVars>>

\* ensureRipsIncapacidadOptions: await prisma.referenceRecord.count(...)
EnsureCount(c) ==
    /\ pc[c] = "ensureCount"
    /\ local' = [local EXCEPT ![c].count = Len(refTable)]
    /\ Goto(c, IF Len(refTable) = 0 THEN "ensureSeed" ELSE "incapacidades")
    /\ UNCHANGED <<input, response, generations, refTable, emr, valVars, treeVars, syncVars>>

\* ensureRipsIncapacidadOptions: await prisma.$transaction([create, create]);
\* (tableName, externalId) is unique, so the transaction fails as a whole when
\* a row with externalId 1 or 2 is already there
EnsureSeed(c) ==
    /\ pc[c] = "ensureSeed"
    /\ IF \E i \in 1..Len(refTable) : refTable[i].externalId \in {1, 2}
       THEN Throw(c, "Unique constraint failed") /\ UNCHANGED refTable
       ELSE /\ refTable' = refTable \o DefaultIncapacidadRows
            /\ Goto(c, "incapacidades")
            /\ UNCHANGED response
    /\ UNCHANGED <<input, local, generations, emr, valVars, treeVars, syncVars>>

\* await getRipIncapacidades(); siOption, noOption
GetIncapacidades(c) ==
    /\ pc[c] = "incapacidades"
    /\ LET options == getRipIncapacidades(refTable) IN
       local' = [local EXCEPT ![c].siOption = IncapOption(options, "1", "SI"),
                              ![c].noOption = IncapOption(options, "0", "NO")]
    /\ Goto(c, "batch")
    /\ UNCHANGED <<input, response, generations, refTable, emr, valVars, treeVars, syncVars>>

\* await Promise.all([billing options, billing records, prescriptions, providers])
FetchBatch(c) ==
    /\ pc[c] = "batch"
    /\ Goto(c, "record")
    /\ UNCHANGED <<input, local, response, generations, refTable, emr, valVars, treeVars, syncVars>>

\* await createRipsGenerationRecord(input.selections.length, "RIPS_JSON")
CreateRecord(c) ==
    /\ pc[c] = "record"
    /\ generations' = createRipsGenerationRecord(generations, Len(input[c]), "RIPS_JSON")
    /\ local' = [local EXCEPT
                    ![c].recordId = ConsecutivoFile(generations'[Len(generations')]),
                    ![c].order = Len(generations')]
    /\ Goto(c, "build")
    /\ UNCHANGED <<input, response, refTable, emr, valVars, treeVars, syncVars>>

\* lines 138-235, synchronous: build with the mappers, validate, return; an
\* exception of a mapper or of the validator reaches the catch and is rethrown
Build(c) ==
    /\ pc[c] = "build"
    /\ LET ctx == Fetched(emr, input[c], local[c].siOption, local[c].noOption)
           ripsJson == RipsJson(ctx, input[c])
       IN  IF BuildRaised(ripsJson)
           THEN Throw(c, "Invalid time value")
           ELSE IF validateThrows(ripsJson)
           THEN Throw(c, "TypeError")
           ELSE /\ response' = [response EXCEPT ![c] =
                       [status |-> "ok", json |-> ripsJson,
                        filename |-> Filename(local[c].recordId),
                        consecutivo |-> local[c].recordId,
                        validationErrors |-> validateRipsJson(ripsJson, vNow),
                        error |-> ""]]
                /\ Goto(c, "done")
    /\ UNCHANGED <<input, local, generations, refTable, emr, valVars, treeVars, syncVars>>

Awaiting ==
    {"facility", "patients", "encounters", "ensureCount", "ensureSeed", "incapacidades",
     "batch", "record"}

\* the awaited query rejects (connection lost, SQL error): caught and rethrown
QueryFails(c) ==
    /\ pc[c] \in Awaiting
    /\ Throw(c, "query failed")
    /\ UNCHANGED <<input, local, generations, refTable, emr, valVars, treeVars, syncVars>>

Next ==
    \/ \E c \in Calls : GetFacility(c)
    \/ \E c \in Calls : FetchPatients(c)
    \/ \E c \in Calls : FetchEncounters(c)
    \/ \E c \in Calls : EnsureCount(c)
    \/ \E c \in Calls : EnsureSeed(c)
    \/ \E c \in Calls : GetIncapacidades(c)
    \/ \E c \in Calls : FetchBatch(c)
    \/ \E c \in Calls : CreateRecord(c)
    \/ \E c \in Calls : Build(c)
    \/ \E c \in Calls : QueryFails(c)

Spec == Init /\ [][Next]_vars
SpecPipeline == InitPipeline /\ [][Next]_vars

(***************************************************************************)
(* Claims about the generation calls                                       *)
(***************************************************************************)
Succeeded(c) == response[c].status = "ok"
Failed(c) == pc[c] = "failed"
RecordOf(c) == generations[local[c].order]
UsersOf(c) == ItemsOf(Get(Get(response[c].json, "transaccion"), "usuarios"))
ServiceKinds == {"consultas", "procedimientos", "medicamentos"}
ServiceItems(user, kind) == ItemsOf(Get(Get(user, "servicios"), kind))
Numbered(items) == \A i \in 1..Len(items) : Get(items[i], "consecutivo") = Num(i)

\* C3: across every interleaving of concurrent generation calls, the calls
\* that succeed return pairwise different consecutivo values, a call whose
\* audit record was created later has the strictly larger consecutivo, and
\* each returned filename is RIPS_<id>.json for the id of the audit record
\* that call created, which is also its consecutivo.
C3_UniqueAscendingConsecutivo ==
    \A c \in Calls : Succeeded(c) =>
        /\ response[c].consecutivo = RecordOf(c).id
        /\ response[c].filename = <<"RIPS_", RecordOf(c).id, ".json">>
        /\ \A d \in Calls : (Succeeded(d) /\ d # c) =>
              /\ response[d].consecutivo # response[c].consecutivo
              /\ local[c].order < local[d].order
                    => response[c].consecutivo < response[d].consecutivo

\* two calls ran concurrently to success, the second of them created its
\* audit record before the first did
C3_Witness ==
    /\ \A c \in Calls : Succeeded(c)
    /\ \E c, d \in Calls : c < d /\ local[d].order < local[c].order

\* C4: a generation call that failed left no audit record behind (record and
\* document are produced together or not at all).
C4_NoRecordWithoutDocument ==
    \A c \in Calls : Failed(c) => local[c].order = 0

\* C5: in every document a generation call returns, the users carry
\* consecutivo 1..n in array order (skipped selections leave no gap) and,
\* within each user, consultas, procedimientos and medicamentos each carry
\* consecutivo 1..k in array order across the user's encounters.
C5_GapFreeConsecutivo ==
    \A c \in Calls : Succeeded(c) =>
        /\ Numbered(UsersOf(c))
        /\ \A u \in 1..Len(UsersOf(c)) : \A kind \in ServiceKinds :
              Numbered(ServiceItems(UsersOf(c)[u], kind))

\* a returned document whose first selection was skipped, with a user behind
\* it that has two consultations, and one with two procedures or medications
C5_Witness ==
    \E c \in Calls :
        /\ Succeeded(c)
        /\ Len(input[c]) = 2
        /\ Len(UsersOf(c)) = 1
        /\ Len(ServiceItems(UsersOf(c)[1], "consultas")) >= 2
        /\ \E kind \in {"procedimientos", "medicamentos"} :
              Len(ServiceItems(UsersOf(c)[1], kind)) >= 2

(***************************************************************************)
(* Tree Interpreter: rips-generator.ts, reached through rips.generate      *)
(***************************************************************************)
Leaf(type) == [type |-> type, children |-> <<>>]
Node(type, children) == [type |-> type, children |-> children]

ConsultaSchema ==
    Node("array",
         [codPrestador |-> Leaf("string"),
          fechaInicioAtencion |-> Leaf("datetime"),
          numAutorizacion |-> Leaf("string"),
          codConsulta |-> Leaf("string"),
          modalidadGrupoServicioTec |-> Leaf("string"),
          grupoServicios |-> Leaf("string"),
          codServicio |-> Leaf("string"),
          finalidadTecnologiaSalud |-> Leaf("string"),
          causaMotivoAtencion |-> Leaf("string"),
          codDiagnosticoPrincipal |-> Leaf("string"),
          codDiagnosticoRelacionado1 |-> Leaf("string"),
          codDiagnosticoRelacionado2 |-> Leaf("string"),
          codDiagnosticoRelacionado3 |-> Leaf("string"),
          tipoDocumentoIdentificacion |-> Leaf("string"),
          numDocumentoIdentificacion |-> Leaf("string"),
          vrServicio |-> Leaf("number"),
          tipoPagoModerador |-> Leaf("string"),
          valorPagoModerador |-> Leaf("number"),
          numFEVPagoModerador |-> Leaf("string")])

UsuarioSchema ==
    Node("array",
         [tipoDocumentoIdentificacion |-> Leaf("string"),
          numDocumentoIdentificacion |-> Leaf("string"),
          tipoUsuario |-> Leaf("string"),
          fechaNacimiento |-> Leaf("date"),
          codSexo |-> Leaf("string"),
          codPaisResidencia |-> Leaf("string"),
          codMunicipioResidencia |-> Leaf("string"),
          incapacidad |-> Leaf("string"),
          consecutivo |-> Leaf("number"),
          servicios |-> Node("object", [consultas |-> ConsultaSchema])])

RIPS_SCHEMA ==
    Node("root",
         [transaccion |->
             Node("object",
                  [numDocumentoIdObligado |-> Leaf("string"),
                   numFactura |-> Leaf("string"),
                   tipoNota |-> Leaf("string"),
                   numNota |-> Leaf("string"),
                   usuarios |-> UsuarioSchema])])

\* a mapping entry; the properties an entry does not have are ""
Config(type, table, column, value, refT, matchColumn, returnColumn) ==
    [type |-> type, table |-> table, column |-> column, value |-> value,
     refTable |-> refT, matchColumn |-> matchColumn, returnColumn |-> returnColumn]
ListOf(table) == Config("list", table, "", Null, "", "", "")
FieldOf(column) == Config("field", "", column, Null, "", "", "")
StaticOf(value) == Config("static", "", "", value, "", "", "")
LookupOf(column, refT, matchColumn, returnColumn) ==
    Config("lookup", "", column, Null, refT, matchColumn, returnColumn)
LocalFieldOf(table, column) == Config("local_field", table, column, Null, "", "", "")

\* the row alone as the new context, the enclosing rows dropped
Spread_MutRowOnly(context, row) == row

\* the merge with the context's columns taking precedence over the row's
Spread_MutContextWins(context, row) ==
    [k \in DOMAIN context \cup DOMAIN row |->
        IF k \in DOMAIN context THEN context[k] ELSE row[k]]

\* { ...context, ...row }
Spread(context, row) ==
    [k \in DOMAIN context \cup DOMAIN row |->
        IF k \in DOMAIN row THEN row[k] ELSE context[k]]

\* context[column]
ContextGet(context, column) ==
    IF column \in DOMAIN context THEN context[column] ELSE Undef

\* String(sourceVal)
String(v) ==
    CASE v.t = "number" -> Str(ToString(v.n))
      [] v.t = "string" -> v
      [] OTHER -> Str("[object]")

\* getOpenEmrTableColumns(tableName) inside its try/catch: the column names,
\* none when the introspection fails
ColumnNames(tableName) ==
    IF tableName \in tReq.columnsFail \/ tableName \notin DOMAIN emr THEN {}
    ELSE emr[tableName].columns

\* the query of a list node rejects (unknown table, connection lost)
QueryRejects(tableName) ==
    tableName \in tReq.queryFail \/ tableName \notin DOMAIN emr

\* date >= ? AND date <= ? for a column of a row (NULL satisfies neither)
InRange(v, globalParams) ==
    /\ v.t = "date" /\ v.s = ""
    /\ globalParams.dateStart.n <= v.n
    /\ v.n <= globalParams.dateEnd.n

\* the WHERE clause without the predicates on pid and encounter
RowMatches_MutNoJoin(row, columnNames, context, globalParams) ==
    LET dated == Truthy(globalParams.dateStart) /\ Truthy(globalParams.dateEnd) IN
    IF "date" \in columnNames /\ dated
    THEN InRange(row["date"], globalParams)
    ELSE IF "date_service" \in columnNames /\ dated
    THEN InRange(row["date_service"], globalParams)
    ELSE TRUE

\* the WHERE clause processNode builds for a list node
RowMatches(row, columnNames, context, globalParams) ==
    LET dated == Truthy(globalParams.dateStart) /\ Truthy(globalParams.dateEnd) IN
    /\ IF "date" \in columnNames /\ dated
       THEN InRange(row["date"], globalParams)
       ELSE IF "date_service" \in columnNames /\ dated
       THEN InRange(row["date_service"], globalParams)
       ELSE TRUE
    /\ (Truthy(ContextGet(context, "pid")) /\ "pid" \in columnNames)
          => row["pid"] = context["pid"]
    /\ (Truthy(ContextGet(context, "encounter")) /\ "encounter" \in columnNames)
          => row["encounter"] = context["encounter"]

\* prisma.referenceRecord.findFirst({ where: { tableName, [matchColumn]: text } })
FindReference(refT, matchColumn, text) ==
    SelectSeq(refTable,
              LAMBDA r : r.tableName = refT /\ matchColumn \in DOMAIN r
                         /\ r[matchColumn] = text)

\* the leaf branch leaving an unbound leaf undefined (no `return null`)
ProcessLeaf_MutUndefined(path, mapping, context) ==
    IF path \notin DOMAIN mapping THEN Undef
    ELSE LET config == mapping[path] IN
         CASE config.type = "static" -> config.value
           [] config.type = "field" ->
                IF ContextGet(context, config.column) # Undef
                THEN ContextGet(context, config.column) ELSE Null
           [] OTHER -> Null

\* the leaf branch testing the column's value for truthiness
ProcessLeaf_MutTruthy(path, mapping, context) ==
    IF path \notin DOMAIN mapping THEN Null
    ELSE LET config == mapping[path] IN
         CASE config.type = "static" -> config.value
           [] config.type = "field" ->
                IF Truthy(ContextGet(context, config.column))
                THEN ContextGet(context, config.column) ELSE Null
           [] config.type = "lookup" ->
                LET sourceVal == ContextGet(context, config.column)
                    found == FindReference(config.refTable, config.matchColumn,
                                           String(sourceVal))
                IN  IF sourceVal \in {Undef, Null} \/ tReq.lookupFail \/ found = <<>>
                    THEN Null
                    ELSE IF config.returnColumn \in DOMAIN found[1]
                         THEN found[1][config.returnColumn] ELSE Undef
           [] OTHER -> Null

\* the leaf branch of processNode (lines 184-228)
ProcessLeaf(path, mapping, context) ==
    IF path \notin DOMAIN mapping THEN Null
    ELSE LET config == mapping[path] IN
         CASE config.type = "static" -> config.value
           [] config.type = "field" ->
                IF ContextGet(context, config.column) # Undef
                THEN ContextGet(context, config.column) ELSE Null
           [] config.type = "lookup" ->
                LET sourceVal == ContextGet(context, config.column)
                    found == FindReference(config.refTable, config.matchColumn,
                                           String(sourceVal))
                IN  IF sourceVal \in {Undef, Null} \/ tReq.lookupFail \/ found = <<>>
                    THEN Null
                    ELSE IF config.returnColumn \in DOMAIN found[1]
                         THEN found[1][config.returnColumn] ELSE Undef
           [] OTHER -> Null

RECURSIVE processNode(_, _, _, _, _)
\* processNode(node, path, mapping, context, globalParams); a path is the
\* sequence of its dot-separated keys
processNode(node, path, mapping, context, globalParams) ==
    CASE node.type \in {"root", "object"} ->
           Obj([key \in DOMAIN node.children |->
                   processNode(node.children[key], Append(path, key), mapping,
                               context, globalParams)])
      [] node.type = "array" ->
           IF path \notin DOMAIN mapping
              \/ mapping[path].type # "list" \/ mapping[path].table = ""
           THEN Arr(<<>>)
           ELSE LET tableName == mapping[path].table
                    columnNames == ColumnNames(tableName)
                IN  IF QueryRejects(tableName) THEN Arr(<<>>)
                    ELSE LET rows == SelectSeq(emr[tableName].rows,
                                        LAMBDA row : RowMatches(row, columnNames,
                                                                context, globalParams))
                         IN  Arr([i \in 1..Len(rows) |->
                                    Obj([key \in DOMAIN node.children |->
                                           processNode(node.children[key],
                                                       Append(path, key), mapping,
                                                       Spread(context, rows[i]),
                                                       globalParams)])])
      [] OTHER -> ProcessLeaf(path, mapping, context)

\* what a stored preset's mapping text parses to: "object" (parsed holds the
\* entries by path), "null" (the text is the JSON null), "invalid"
Preset(kind, parsed) == [kind |-> kind, parsed |-> parsed]

\* generateRipsJson(presetId, dateStart, dateEnd): the document, or the error
\* it throws
generateRipsJson(presetId, dateStart, dateEnd) ==
    IF presetId \notin DOMAIN tReq.presets
    THEN [threw |-> TRUE, value |-> Null, error |-> "Error: Preset not found"]
    ELSE LET preset == tReq.presets[presetId] IN
         CASE preset.kind = "invalid" ->
                [threw |-> TRUE, value |-> Null,
                 error |-> "Error: Invalid mapping JSON in preset"]
           [] preset.kind = "null" ->
                [threw |-> TRUE, value |-> Null,
                 error |-> "TypeError: Cannot read properties of null"]
           [] OTHER ->
                [threw |-> FALSE,
                 value |-> processNode(RIPS_SCHEMA, <<>>, preset.parsed, <<>>,
                                       [dateStart |-> dateStart, dateEnd |-> dateEnd]),
                 error |-> ""]

(***************************************************************************)
(* SpecTree: rips.generate over bounded presets and data                   *)
(***************************************************************************)
UsuariosPath == <<"transaccion", "usuarios">>
ConsultasPath == UsuariosPath \o <<"servicios", "consultas">>

\* the mapping with the given (path, entry) pairs
MappingOf(pairs) ==
    [path \in {x[1] : x \in pairs} |-> (CHOOSE x \in pairs : x[1] = path)[2]]

BaseEntries ==
    {<<<<"transaccion", "numFactura">>, StaticOf(Str("FV-1"))>>,
     <<<<"transaccion", "numDocumentoIdObligado">>, StaticOf(Str("900123456001"))>>,
     <<UsuariosPath, ListOf("patient_data")>>,
     <<Append(UsuariosPath, "tipoDocumentoIdentificacion"), StaticOf(Str("CC"))>>,
     <<Append(UsuariosPath, "numDocumentoIdentificacion"), FieldOf("ss")>>,
     <<Append(UsuariosPath, "codSexo"), FieldOf("sex")>>,
     <<Append(UsuariosPath, "codMunicipioResidencia"), FieldOf("county")>>,
     <<Append(UsuariosPath, "incapacidad"),
       LookupOf("unable", "RIPSIncapacidad", "extraI", "codigo")>>,
     <<ConsultasPath, ListOf("form_encounter")>>,
     <<Append(ConsultasPath, "fechaInicioAtencion"), FieldOf("date")>>,
     <<Append(ConsultasPath, "codConsulta"), StaticOf(Str("890201"))>>,
     <<Append(ConsultasPath, "vrServicio"), FieldOf("fee")>>,
     <<Append(ConsultasPath, "numDocumentoIdentificacion"), FieldOf("ss")>>}

ConsecutivoPath == Append(UsuariosPath, "consecutivo")

PresetChoices ==
    <<Preset("object", MappingOf(BaseEntries)),
      Preset("object", MappingOf(BaseEntries \cup {<<ConsecutivoPath, FieldOf("pid")>>})),
      Preset("object", MappingOf(BaseEntries \cup {<<ConsecutivoPath, StaticOf(Num(1))>>})),
      Preset("object", MappingOf({<<UsuariosPath, ListOf("patient_data")>>})),
      Preset("object", MappingOf({<<UsuariosPath, ListOf("dropped_table")>>})),
      Preset("object", MappingOf({<<UsuariosPath, FieldOf("pid")>>})),
      Preset("object", MappingOf({})),
      Preset("object", MappingOf(BaseEntries \cup
          {<<Append(UsuariosPath, "tipoUsuario"),
             LookupOf("unable", "RIPSIncapacidad", "extraI", "label")>>})),
      Preset("object", MappingOf(BaseEntries \cup
          {<<Append(UsuariosPath, "codPaisResidencia"), StaticOf(Undef)>>})),
      Preset("object", MappingOf(BaseEntries \cup
          {<<Append(UsuariosPath, "tipoUsuario"), LocalFieldOf("patient_data", "sex")>>,
           <<Append(UsuariosPath, "codPaisResidencia"), FieldOf("unable")>>})),
      Preset("object", MappingOf({<<UsuariosPath, ListOf("form_encounter")>>,
                                  <<ConsultasPath, ListOf("form_encounter")>>,
                                  <<Append(ConsultasPath, "fechaInicioAtencion"),
                                    FieldOf("date")>>,
                                  <<Append(ConsultasPath, "vrServicio"), FieldOf("fee")>>})),
      Preset("null", MappingOf({})),
      Preset("invalid", MappingOf({}))>>

TreeDb ==
    [patient_data |->
        [columns |-> {"pid", "ss", "sex", "date", "unable"},
         rows |-> <<[pid |-> Num(7), ss |-> Str("12345678"), sex |-> Str("F"),
                     date |-> DateObj(79000), unable |-> Num(1)],
                    [pid |-> Num(3), ss |-> Null, sex |-> Str("M"),
                     date |-> DateObj(79004), unable |-> Null],
                    [pid |-> Num(4), ss |-> Str("1234"), sex |-> Str("M"),
                     date |-> Null, unable |-> Num(0)],
                    [pid |-> Num(0), ss |-> Str("0000"), sex |-> Str("F"),
                     date |-> Null, unable |-> Null]>>],
     form_encounter |->
        [columns |-> {"id", "pid", "encounter", "date", "fee"},
         rows |-> <<[id |-> Num(1), pid |-> Num(7), encounter |-> Num(101),
                     date |-> DateObj(79001), fee |-> Num(10)],
                    [id |-> Num(2), pid |-> Num(7), encounter |-> Num(102),
                     date |-> DateObj(79006), fee |-> Num(-1)],
                    [id |-> Num(3), pid |-> Num(3), encounter |-> Num(103),
                     date |-> DateObj(79005), fee |-> Null],
                    [id |-> Num(4), pid |-> Num(0), encounter |-> Num(0),
                     date |-> DateObj(79003), fee |-> Num(5)],
                    [id |-> Num(5), pid |-> Num(3), encounter |-> Num(0),
                     date |-> DateObj(79004), fee |-> Num(7)]>>]]

TreeReferences ==
    <<[tableName |-> "RIPSIncapacidad", codigo |-> Str("SI"), extraI |-> Str("1")],
      [tableName |-> "RIPSIncapacidad", codigo |-> Str("NO"), extraI |-> Str("0")]>>

DateRangeChoices ==
    {<<Str(""), Str("")>>, <<IsoDate(79000), IsoDate(79008)>>,
     <<IsoDate(79002), IsoDate(79005)>>}

TreeRequests ==
    [presets : {PresetChoices},
     presetId : 1..(Len(PresetChoices) + 1),
     range : DateRangeChoices,
     columnsFail : SUBSET {"patient_data", "form_encounter"},
     queryFail : SUBSET {"form_encounter"},
     lookupFail : BOOLEAN]

InitTree ==
    /\ tReq \in TreeRequests
    /\ tRes = <<>>
    /\ tpc = "ready"
    /\ emr = TreeDb
    /\ refTable = TreeReferences
    /\ vNow = CHOOSE n \in NowChoices : \A m \in NowChoices : n <= m
    /\ vDoc = Null /\ vOut = NoOutput /\ vpc = "off"
    /\ pc = <<>> /\ input = <<>> /\ local = <<>> /\ response = <<>>
    /\ generations = <<>>
    /\ SyncOff

\* the handler of rips.generate (router.ts): { success, json } or
\* { success: false, error }
ripsGenerate ==
    /\ tpc = "ready"
    /\ LET json == generateRipsJson(tReq.presetId, tReq.range[1], tReq.range[2]) IN
       tRes' = IF json.threw
               THEN [success |-> FALSE, error |-> json.error]
               ELSE [success |-> TRUE, json |-> json.value]
    /\ tpc' = "done"
    /\ UNCHANGED <<tReq, pipeVars, valVars, syncVars>>

NextTree == ripsGenerate
SpecTree == InitTree /\ [][NextTree]_vars

(***************************************************************************)
(* Claims about the two pipelines                                          *)
(***************************************************************************)
TreeSucceeded == tpc = "done" /\ tRes.success
TreeUsers == ItemsOf(Get(Get(tRes.json, "transaccion"), "usuarios"))
KeysOf(o) == DOMAIN o.f

\* the keys the Direct Pipeline mappers give a servicios object and a
\* consultation
MapperServiceKeys == KeysOf(Services(<<>>, <<>>, <<>>))
MapperConsultaKeys ==
    KeysOf(mapConsultation(Emr.form_encounter[1], Str("900123456001"), <<>>, <<>>, 1))

\* C1: every successful generation call of either pipeline returns, with the
\* document, the findings validateRipsJson gives for that document.
C1_AlwaysValidated ==
    /\ \A c \in Calls : Succeeded(c) =>
          response[c].validationErrors = validateRipsJson(response[c].json, vNow)
    /\ TreeSucceeded =>
          /\ "validationErrors" \in DOMAIN tRes
          /\ tRes.validationErrors = validateRipsJson(tRes.json, vNow)

\* C2: in a document of the Tree Interpreter every user's servicios has the
\* service-kind keys the Direct Pipeline mappers produce, and every
\* consultation has the field names mapConsultation produces.
C2_SameShape ==
    TreeSucceeded =>
        \A u \in 1..Len(TreeUsers) :
            /\ KeysOf(Get(TreeUsers[u], "servicios")) = MapperServiceKeys
            /\ LET consultas == ServiceItems(TreeUsers[u], "consultas") IN
               \A i \in 1..Len(consultas) : KeysOf(consultas[i]) = MapperConsultaKeys

\* C6: in a document of the Tree Interpreter the i-th user carries
\* consecutivo i, whatever the mapping binds.
C6_TreeUserConsecutivo ==
    TreeSucceeded => Numbered(TreeUsers)

TreeMapping == tReq.presets[tReq.presetId].parsed

RECURSIVE Conforms(_, _, _, _)
\* value has the shape node declares: objects and array elements carry
\* exactly the declared keys, a leaf without a mapping entry is null, and
\* (strict) no leaf is undefined
Conforms(node, path, value, strict) ==
    CASE node.type \in {"root", "object"} ->
           /\ value.t = "object"
           /\ DOMAIN value.f = DOMAIN node.children
           /\ \A key \in DOMAIN node.children :
                 Conforms(node.children[key], Append(path, key), value.f[key], strict)
      [] node.type = "array" ->
           /\ value.t = "array"
           /\ \A i \in 1..Len(value.items) :
                 /\ value.items[i].t = "object"
                 /\ DOMAIN value.items[i].f = DOMAIN node.children
                 /\ \A key \in DOMAIN node.children :
                       Conforms(node.children[key], Append(path, key),
                                value.items[i].f[key], strict)
      [] OTHER ->
           /\ path \notin DOMAIN TreeMapping => value = Null
           /\ strict => value # Undef

IsListBound(path) ==
    /\ path \in DOMAIN TreeMapping
    /\ TreeMapping[path].type = "list" /\ TreeMapping[path].table # ""
RowsFetched(path) == IsListBound(path) /\ ~QueryRejects(TreeMapping[path].table)
\* the rows the query of the list at path returns under context
ReturnedRows(path, context) ==
    LET tableName == TreeMapping[path].table IN
    SelectSeq(emr[tableName].rows,
              LAMBDA row : RowMatches(row, ColumnNames(tableName), context,
                                      [dateStart |-> tReq.range[1],
                                       dateEnd |-> tReq.range[2]]))
\* every leaf of element that a field binding ties to a column holds the
\* value context has for the column (null without one)
FieldLeavesFrom(element, path, context) ==
    \A key \in DOMAIN element.f :
        LET leaf == Append(path, key) IN
        (leaf \in DOMAIN TreeMapping /\ TreeMapping[leaf].type = "field") =>
            element.f[key] =
                (IF ContextGet(context, TreeMapping[leaf].column) # Undef
                 THEN context[TreeMapping[leaf].column] ELSE Null)

\* C15: an array node whose list source is fetched yields one element per
\* returned row, in fetch order, the i-th computed under the context merged
\* with the i-th row (the row's columns taking precedence), at both depths.
C15_OneElementPerRow ==
    (TreeSucceeded /\ RowsFetched(UsuariosPath)) =>
        LET rows == ReturnedRows(UsuariosPath, <<>>) IN
        /\ Len(TreeUsers) = Len(rows)
        /\ \A i \in 1..Len(rows) :
              /\ FieldLeavesFrom(TreeUsers[i], UsuariosPath, rows[i])
              /\ RowsFetched(ConsultasPath) =>
                    LET inner == ReturnedRows(ConsultasPath, rows[i])
                        consultas == ServiceItems(TreeUsers[i], "consultas")
                    IN  /\ Len(consultas) = Len(inner)
                        /\ \A j \in 1..Len(inner) :
                              FieldLeavesFrom(consultas[j], ConsultasPath,
                                              [k \in DOMAIN rows[i] \cup DOMAIN inner[j] |->
                                                  IF k \in DOMAIN inner[j]
                                                  THEN inner[j][k] ELSE rows[i][k]])

\* a date-filtered run with two users, one of them with two consultations
\* whose leaves come from the encounter row and from the patient row
C15_Witness ==
    /\ TreeSucceeded /\ RowsFetched(UsuariosPath) /\ RowsFetched(ConsultasPath)
    /\ Truthy(tReq.range[1])
    /\ Len(TreeUsers) = 2
    /\ \E u \in 1..2 :
          LET consultas == ServiceItems(TreeUsers[u], "consultas") IN
          /\ Len(consultas) = 2
          /\ Get(consultas[1], "fechaInicioAtencion") # Get(consultas[2], "fechaInicioAtencion")
          /\ Get(consultas[2], "numDocumentoIdentificacion")
                = Get(TreeUsers[u], "numDocumentoIdentificacion")
          /\ Get(consultas[2], "numDocumentoIdentificacion") # Null

\* every leaf of element bound with one of the types holds context[column],
\* or null when the context has no such column
ResolvesToColumn(element, path, context, types) ==
    \A key \in DOMAIN element.f :
        LET leaf == Append(path, key) IN
        (leaf \in DOMAIN TreeMapping /\ TreeMapping[leaf].type \in types) =>
            element.f[key] =
                (IF TreeMapping[leaf].column \in DOMAIN context
                 THEN context[TreeMapping[leaf].column] ELSE Null)
\* every leaf of element bound with the type is null
ResolvesToNull(element, path, type) ==
    \A key \in DOMAIN element.f :
        LET leaf == Append(path, key) IN
        (leaf \in DOMAIN TreeMapping /\ TreeMapping[leaf].type = type) =>
            element.f[key] = Null
\* the run used a mapping and fetched the rows of usuarios
UsersFetched ==
    /\ tpc = "done" /\ tReq.presetId \in DOMAIN tReq.presets
    /\ tReq.presets[tReq.presetId].kind = "object"
    /\ RowsFetched(UsuariosPath)

\* C16 as stated: a leaf bound by a field or a local_field binding resolves
\* to context[column] when the context holds the column and to null
\* otherwise, and the run does not raise.
C16_FieldAndLocalField ==
    UsersFetched =>
        /\ tRes.success
        /\ \A i \in 1..Len(TreeUsers) :
              ResolvesToColumn(TreeUsers[i], UsuariosPath,
                               ReturnedRows(UsuariosPath, <<>>)[i],
                               {"field", "local_field"})

\* C16 as the code has it: a leaf bound by a field binding resolves to
\* context[column] when the context holds the column (whatever its value,
\* 0 included) and to null otherwise; a leaf bound by a local_field binding
\* is null whatever the context holds; the run does not raise.
C16_FieldBinding ==
    UsersFetched =>
        /\ tRes.success
        /\ \A i \in 1..Len(TreeUsers) :
              /\ ResolvesToColumn(TreeUsers[i], UsuariosPath,
                                  ReturnedRows(UsuariosPath, <<>>)[i], {"field"})
              /\ ResolvesToNull(TreeUsers[i], UsuariosPath, "local_field")

\* a user whose row holds the local_field's column and whose field-bound
\* leaves hold 0, a text and null (a column the row lacks)
C16_Witness ==
    /\ UsersFetched /\ tRes.success
    /\ Append(UsuariosPath, "tipoUsuario") \in DOMAIN TreeMapping
    /\ TreeMapping[Append(UsuariosPath, "tipoUsuario")].type = "local_field"
    /\ \E i \in 1..Len(TreeUsers) :
          /\ ContextGet(ReturnedRows(UsuariosPath, <<>>)[i], "sex") = Str("M")
          /\ Get(TreeUsers[i], "tipoUsuario") = Null
          /\ Get(TreeUsers[i], "codPaisResidencia") = Num(0)
          /\ Get(TreeUsers[i], "codSexo") = Str("M")
          /\ Get(TreeUsers[i], "codMunicipioResidencia") = Null

\* the node at path fails: its column introspection or its row fetch does
NodeFails(path) ==
    \/ TreeMapping[path].table \in tReq.columnsFail
    \/ QueryRejects(TreeMapping[path].table)
\* the rows the list at path returns when nothing fails: the table's own
\* columns decide the date, pid and encounter filters
RowsWithoutFailure(path, context) ==
    LET tableName == TreeMapping[path].table IN
    SelectSeq(emr[tableName].rows,
              LAMBDA row : RowMatches(row, emr[tableName].columns, context,
                                      [dateStart |-> tReq.range[1],
                                       dateEnd |-> tReq.range[2]]))
\* the lookup-bound leaves of element are null
LookupsNull(element, path) == ResolvesToNull(element, path, "lookup")

\* C17: whatever combination of column introspections, row fetches and
\* reference lookups fails, the run returns a document; a failing array node
\* is the empty sequence and a failing lookup leaf is null, and the nodes
\* outside a failing node's subtree are what they are without the failure.
C17_FailuresDegradeLocally ==
    (/\ tpc = "done" /\ tReq.presetId \in DOMAIN tReq.presets
     /\ tReq.presets[tReq.presetId].kind = "object"
     /\ IsListBound(UsuariosPath) /\ TreeMapping[UsuariosPath].table \in DOMAIN emr) =>
        /\ tRes.success
        /\ IF NodeFails(UsuariosPath) THEN TreeUsers = <<>>
           ELSE LET rows == RowsWithoutFailure(UsuariosPath, <<>>) IN
                /\ Len(TreeUsers) = Len(rows)
                /\ \A i \in 1..Len(rows) :
                      /\ ResolvesToColumn(TreeUsers[i], UsuariosPath, rows[i], {"field"})
                      /\ tReq.lookupFail => LookupsNull(TreeUsers[i], UsuariosPath)
                      /\ IsListBound(ConsultasPath) =>
                            LET consultas == ServiceItems(TreeUsers[i], "consultas") IN
                            IF NodeFails(ConsultasPath) THEN consultas = <<>>
                            ELSE Len(consultas)
                                    = Len(RowsWithoutFailure(ConsultasPath, rows[i]))

\* C18: a generation call that fails at any step (no facility, a rejected
\* query, seeding, audit record creation, a mapper or the validator raising)
\* ends with an error and without any document, filename or findings; a
\* document is only ever returned by a call no step of which failed, and it
\* is the whole document built from its selections.
C18_FailureReturnsNoDocument ==
    \A c \in Calls :
        /\ Failed(c) =>
              /\ response[c].status = "error" /\ response[c].error # ""
              /\ response[c].json = Null /\ response[c].filename = <<>>
              /\ response[c].validationErrors = <<>>
        /\ response[c].json # Null =>
              /\ pc[c] = "done" /\ Succeeded(c)
              /\ response[c].json =
                    RipsJson(Fetched(emr, input[c], local[c].siOption, local[c].noOption),
                             input[c])

\* a call that failed while building (a mapper raised on the second
\* selection's birth date) after its audit record had been created
C18_Witness ==
    \E c \in Calls :
        /\ Failed(c) /\ local[c].order > 0
        /\ response[c].error = "Invalid time value"
        /\ Len(input[c]) = 2
        /\ input[c][1].patientId = Num(1) /\ input[c][2].patientId = Num(2)
        /\ response[c].json = Null

\* what call c holds when it builds, and its selections that yield a user
CtxOf(c) == Fetched(emr, input[c], local[c].siOption, local[c].noOption)
EmittedSelections(c) == SelectSeq(input[c], LAMBDA s : ~Skipped(CtxOf(c), s))
\* the encounter rows of the database that selected id `id` of call c stands
\* for: fetched for the call's patients, under that id
EncounterRows(c, id) ==
    SelectSeq(emr.form_encounter,
              LAMBDA e : /\ e.id = id
                         /\ \E s \in 1..Len(input[c]) : e.pid = input[c][s].patientId)
\* the places of a selection's ids that stand for an encounter with a number
WithEncounterNumber(c, selection) ==
    {i \in 1..Len(selection.encounterIds) :
        \E k \in 1..Len(EncounterRows(c, selection.encounterIds[i])) :
            Truthy(EncounterRows(c, selection.encounterIds[i])[k].encounter)}

\* C19 as stated: every emitted user has as many consultas as its selection
\* has encounter ids, unresolved ids and encounters numbered 0 included.
C19_ConsultaPerSelectedId ==
    \A c \in Calls : Succeeded(c) =>
        /\ Len(UsersOf(c)) = Len(EmittedSelections(c))
        /\ \A u \in 1..Len(UsersOf(c)) :
              Len(ServiceItems(UsersOf(c)[u], "consultas"))
                 = Len(EmittedSelections(c)[u].encounterIds)

\* C19 as the code has it: every emitted user has one consultation per
\* selected encounter id that resolves to a fetched encounter whose encounter
\* number is neither null nor 0; the other ids contribute none.
C19_ConsultaPerNumberedEncounter ==
    \A c \in Calls : Succeeded(c) =>
        /\ Len(UsersOf(c)) = Len(EmittedSelections(c))
        /\ \A u \in 1..Len(UsersOf(c)) :
              Len(ServiceItems(UsersOf(c)[u], "consultas"))
                 = Cardinality(WithEncounterNumber(c, EmittedSelections(c)[u]))

\* a document with a user of two consultations for two ids, and one with a
\* user of one consultation for two ids, the other numbered 0 or unresolved
C19_Witness ==
    \E c \in Calls :
        /\ Succeeded(c) /\ Len(UsersOf(c)) = 2
        /\ Len(EmittedSelections(c)[1].encounterIds) = 2
        /\ Len(ServiceItems(UsersOf(c)[1], "consultas")) = 2
        /\ Len(EmittedSelections(c)[2].encounterIds) = 2
        /\ Len(ServiceItems(UsersOf(c)[2], "consultas")) = 1

\* the billing-option rows of the encounters the selection's ids stand for
OptionRows(c, selection) ==
    SelectSeq(emr.form_misc_billing_options,
              LAMBDA o : \E i \in WithEncounterNumber(c, selection) :
                            \E k \in 1..Len(EncounterRows(c, selection.encounterIds[i])) :
                               o.encounter
                                  = EncounterRows(c, selection.encounterIds[i])[k].encounter)
AnyAffirmative(rows) == \E k \in 1..Len(rows) : rows[k].is_unable_to_work = Num(1)

\* C20: every emitted user's incapacidad is the SI code if any billing-option
\* row of any of the user's selected encounters has is_unable_to_work = 1 and
\* the NO code otherwise, also when an encounter has several rows of which
\* only some are affirmative, in whatever order the rows are returned.
C20_IncapacidadAnyAffirmative ==
    \A c \in Calls : Succeeded(c) =>
        \A u \in 1..Len(UsersOf(c)) :
            Get(UsersOf(c)[u], "incapacidad") =
                (IF AnyAffirmative(OptionRows(c, EmittedSelections(c)[u]))
                 THEN local[c].siOption ELSE local[c].noOption)

\* the places of a call behind ensureRipsIncapacidadOptions
PastSeeding == {"incapacidades", "batch", "record", "build", "done"}
\* call c found the reference table empty and went on behind the seeding
SeededBy(c) == pc[c] \in PastSeeding /\ local[c].count = 0
SeedingFailed(c) == Failed(c) /\ response[c].error = "Unique constraint failed"

\* C21: in every interleaving of concurrent generation calls no call fails
\* in the seeding step, and once a call that counted zero rows is behind the
\* seeding the reference table holds exactly the two default rows (SI with
\* extraI '1', NO with extraI '0'); a call that counts rows inserts none.
C21_SeedingRaceFree ==
    \A c \in Calls :
        /\ ~SeedingFailed(c)
        /\ SeededBy(c) => refTable = DefaultIncapacidadRows
        /\ (pc[c] \in PastSeeding /\ local[c].count > 0) => Len(refTable) = local[c].count

\* the prescriptions of the database a medication record was mapped from
PrescriptionsOf(item) ==
    SelectSeq(emr.prescriptions, LAMBDA r : r.drug = Get(item, "nomTecnologiaSalud"))

JoinKeys == {"pid", "encounter"}
\* the rows of the list at path that pass its date filter and equal the
\* context in every column of keys
JoinedRows(path, context, keys) ==
    LET tableName == TreeMapping[path].table IN
    SelectSeq(emr[tableName].rows,
              LAMBDA row : /\ RowMatches(row, ColumnNames(tableName), <<>>,
                                         [dateStart |-> tReq.range[1],
                                          dateEnd |-> tReq.range[2]])
                           /\ \A k \in keys : row[k] = context[k])
\* the consultas of every user are, in order, the rows JoinedRows gives for
\* the user's row and the keys chosen for it
ConsultasJoinedOn(truthyOnly) ==
    LET rows == ReturnedRows(UsuariosPath, <<>>) IN
    \A i \in 1..Len(rows) :
        LET keys == {k \in JoinKeys :
                        /\ k \in ColumnNames(TreeMapping[ConsultasPath].table)
                        /\ k \in DOMAIN rows[i]
                        /\ truthyOnly => Truthy(rows[i][k])}
            inner == JoinedRows(ConsultasPath, rows[i], keys)
            consultas == ServiceItems(TreeUsers[i], "consultas")
        IN  /\ Len(consultas) = Len(inner)
            /\ \A j \in 1..Len(inner) :
                  /\ Get(consultas[j], "fechaInicioAtencion") = inner[j].date
                  /\ Get(consultas[j], "vrServicio") = inner[j].fee
\* both arrays were fetched and the inner table's columns were introspected
NestedFetched ==
    /\ TreeSucceeded /\ RowsFetched(UsuariosPath) /\ RowsFetched(ConsultasPath)
    /\ Append(ConsultasPath, "fechaInicioAtencion") \in DOMAIN TreeMapping
    /\ TreeMapping[ConsultasPath].table \notin tReq.columnsFail

RECURSIVE NearestValue(_, _, _)
NearestValue(column, row, ancestors) ==
    IF column \in DOMAIN row THEN row[column]
    ELSE IF ancestors = <<>> THEN Null
    ELSE NearestValue(column, Head(ancestors), Tail(ancestors))
\* every field-bound leaf of element holds the nearest value of its column
LeavesFromNearest(element, path, row, ancestors) ==
    \A key \in DOMAIN element.f :
        LET leaf == Append(path, key) IN
        (leaf \in DOMAIN TreeMapping /\ TreeMapping[leaf].type = "field") =>
            element.f[key] = NearestValue(TreeMapping[leaf].column, row, ancestors)

\* C24: a field leaf inside a row's subtree holds the innermost enclosing
\* row's value of its column when that row has the column and the nearest
\* ancestor row's value otherwise; a user's own leaves come from the user's
\* row whatever rows its nested array and its sibling users fetched, and the
\* leaves under a user never hold a sibling user's values.
C24_ContextPropagation ==
    (TreeSucceeded /\ RowsFetched(UsuariosPath)) =>
        LET rows == ReturnedRows(UsuariosPath, <<>>) IN
        /\ Len(TreeUsers) = Len(rows)
        /\ \A i \in 1..Len(rows) :
              /\ LeavesFromNearest(TreeUsers[i], UsuariosPath, rows[i], <<>>)
              /\ RowsFetched(ConsultasPath) =>
                    LET inner == ReturnedRows(ConsultasPath, rows[i])
                        consultas == ServiceItems(TreeUsers[i], "consultas")
                    IN  /\ Len(consultas) = Len(inner)
                        /\ \A j \in 1..Len(inner) :
                              LeavesFromNearest(consultas[j], ConsultasPath, inner[j],
                                                <<rows[i]>>)

\* the user with pid 0 behind three sibling users: its consecutivo is its own
\* pid although its consultations come from rows with other pids, and its
\* consultations carry its own document number and the encounters' dates
C24_Witness ==
    /\ TreeSucceeded /\ RowsFetched(UsuariosPath) /\ RowsFetched(ConsultasPath)
    /\ ConsecutivoPath \in DOMAIN TreeMapping /\ TreeMapping[ConsecutivoPath].type = "field"
    /\ Len(TreeUsers) = 4
    /\ Get(TreeUsers[4], "consecutivo") = Num(0)
    /\ Get(TreeUsers[3], "numDocumentoIdentificacion") = Str("1234")
    /\ LET consultas == ServiceItems(TreeUsers[4], "consultas") IN
       /\ Len(consultas) = Len(emr.form_encounter.rows)
       /\ ReturnedRows(ConsultasPath, ReturnedRows(UsuariosPath, <<>>)[4])[1].pid = Num(7)
       /\ \A j \in 1..Len(consultas) :
             /\ Get(consultas[j], "numDocumentoIdentificacion") = Str("0000")
             /\ Get(consultas[j], "fechaInicioAtencion").t = "date"

\* C25: the patientCount of the audit record a call created equals the number
\* of users in the document the call returns, also when selections were
\* skipped for an unresolved patient or for unresolved encounters.
C25_PatientCountIsUserCount ==
    \A c \in Calls : Succeeded(c) => RecordOf(c).patientCount = Len(UsersOf(c))

\* the encounters of the database that belong to patient pid, and their numbers
EncountersOfPatient(pid) == SelectSeq(emr.form_encounter, LAMBDA e : e.pid = pid)
NumbersOfPatient(pid) ==
    {EncountersOfPatient(pid)[k].encounter : k \in 1..Len(EncountersOfPatient(pid))}
\* the record derives from an encounter of patient pid
ConsultaOfPatient(item, pid) ==
    \E k \in 1..Len(EncountersOfPatient(pid)) :
        IsoOrEmpty(EncountersOfPatient(pid)[k].date) = Get(item, "fechaInicioAtencion")
ProcedimientoOfPatient(item, pid) ==
    \E k \in 1..Len(emr.billing) :
        /\ emr.billing[k].code = Get(item, "codProcedimiento")
        /\ emr.billing[k].encounter \in NumbersOfPatient(pid)
MedicamentoOfPatient(item, pid) ==
    \E k \in 1..Len(PrescriptionsOf(item)) :
        PrescriptionsOf(item)[k].encounter \in NumbersOfPatient(pid)

\* C26: every consultation, procedure and medication under a user of a
\* returned document derives from an encounter whose pid is that user's
\* patientId; an id of another selected patient's encounter listed in the
\* user's selection is not mapped into the user's services.
C26_ServicesOfOwnPatient ==
    \A c \in Calls : Succeeded(c) =>
        \A u \in 1..Len(UsersOf(c)) :
            LET pid == EmittedSelections(c)[u].patientId
                of(kind) == ServiceItems(UsersOf(c)[u], kind)
            IN  /\ \A i \in 1..Len(of("consultas")) :
                      ConsultaOfPatient(of("consultas")[i], pid)
                /\ \A i \in 1..Len(of("procedimientos")) :
                      ProcedimientoOfPatient(of("procedimientos")[i], pid)
                /\ \A i \in 1..Len(of("medicamentos")) :
                      MedicamentoOfPatient(of("medicamentos")[i], pid)

\* the consultation was read from a row of the nested table that equals the
\* enclosing row in every join column the enclosing row holds a value for
FromJoinedRow(item, outer) ==
    LET tableName == TreeMapping[ConsultasPath].table IN
    \E k \in 1..Len(emr[tableName].rows) :
        LET row == emr[tableName].rows[k] IN
        /\ row.date = Get(item, "fechaInicioAtencion")
        /\ row.fee = Get(item, "vrServicio")
        /\ \A key \in JoinKeys :
              (/\ key \in emr[tableName].columns
               /\ Truthy(ContextGet(outer, key))) => row[key] = outer[key]

\* C27: a nested array whose table has a pid (encounter) column, evaluated
\* under a row holding pid (encounter), only ever attaches rows with that pid
\* (encounter) to the row, also when the table's column introspection fails.
C27_NoUnfilteredFetch ==
    (/\ TreeSucceeded /\ RowsFetched(UsuariosPath) /\ RowsFetched(ConsultasPath)
     /\ Append(ConsultasPath, "fechaInicioAtencion") \in DOMAIN TreeMapping) =>
        LET rows == ReturnedRows(UsuariosPath, <<>>) IN
        \A i \in 1..Len(rows) :
            LET consultas == ServiceItems(TreeUsers[i], "consultas") IN
            \A j \in 1..Len(consultas) : FromJoinedRow(consultas[j], rows[i])

IsIncapacidadFinding(e) == e.field = "incapacidad" /\ e.message = "Must be SI or NO"

\* C28: whatever the RIPSIncapacidad table holds (renamed options, disabled
\* rows, rows without extraI '1' or '0'), the findings returned with a
\* document hold no 'Must be SI or NO' finding for any of its users.
C28_IncapacidadPassesValidator ==
    \A c \in Calls : Succeeded(c) =>
        SelectSeq(response[c].validationErrors, IsIncapacidadFinding) = <<>>

EnumeratedConsultaFields ==
    {"modalidadGrupoServicio", "grupoServicios", "causaMotivoAtencion",
     "tipoDiagnosticoPrincipal", "conceptoRecaudo"}
\* the findings of call c in the scope of consultation i of user u
ConsultaFindingsOf(c, u, i) ==
    LET user == UsersOf(c)[u]
        scope == ItemScope("Consulta", UserScope(user, u),
                           ServiceItems(user, "consultas")[i], i)
    IN  SelectSeq(response[c].validationErrors, LAMBDA e : e.scope = scope)
IsErrorFinding(e) == e.severity = "error"

\* every consultation of call c passes the enumerated checks and has the
\* 'Required' finding on codConsulta
ConsultasFailCodConsulta(c) ==
    \A u \in 1..Len(UsersOf(c)) :
        \A i \in 1..Len(ServiceItems(UsersOf(c)[u], "consultas")) :
           LET found == ConsultaFindingsOf(c, u, i) IN
           /\ \A k \in 1..Len(found) : found[k].field \notin EnumeratedConsultaFields
           /\ \E k \in 1..Len(found) :
                 /\ found[k].field = "codConsulta" /\ found[k].message = "Required"
                 /\ IsErrorFinding(found[k])
HasErrorFinding(c) == SelectSeq(response[c].validationErrors, IsErrorFinding) # <<>>
HasConsulta(c) ==
    \E u \in 1..Len(UsersOf(c)) : ServiceItems(UsersOf(c)[u], "consultas") # <<>>

\* C29 as stated: every consultation of a returned document passes the
\* checks of the enumerated fields (modality, service group, cause, diagnosis
\* type, collection concept) and has a 'Required' finding on codConsulta, and
\* every returned document with at least one user has an error finding.
C29_ErrorForEveryUser ==
    \A c \in Calls : Succeeded(c) =>
        /\ ConsultasFailCodConsulta(c)
        /\ Len(UsersOf(c)) >= 1 => HasErrorFinding(c)

\* C29 as the code has it: the same about every consultation, and every
\* returned document with at least one consultation has an error finding; a
\* user all of whose encounters lack an encounter number has no consultation.
C29_ErrorForEveryConsulta ==
    \A c \in Calls : Succeeded(c) =>
        /\ ConsultasFailCodConsulta(c)
        /\ HasConsulta(c) => HasErrorFinding(c)

\* a returned document with two consultations under one user, each with its
\* own 'Required' finding on codConsulta
C29_Witness ==
    \E c \in Calls :
        /\ Succeeded(c) /\ Len(UsersOf(c)) = 1
        /\ Len(ServiceItems(UsersOf(c)[1], "consultas")) = 2
        /\ ConsultaFindingsOf(c, 1, 1) # ConsultaFindingsOf(c, 1, 2)
        /\ ConsultasFailCodConsulta(c)

(***************************************************************************)
(* SpecSync: syncAllTables (sync.ts), the async generator behind syncAll;  *)
(* one action per await or yield of the generator                          *)
(***************************************************************************)
\* names of remote reference tables (nombre)
TableNames == {"CUPS", "Municipio", "Pais"}
\* most entries in the remote table list
MaxTables == 3
\* what goes wrong while one table is synced: nothing, the data fetch (HTTP
\* status, rejected fetch, unparsable body), the bulk upsert, the upsert of
\* the SyncTable row
Outcomes == {"ok", "fetch", "upsert", "meta"}
\* the ids of the records the endpoint of a table returns
RemoteRecords(nombre) ==
    CASE nombre = "CUPS" -> {1, 2} [] nombre = "Municipio" -> {1} [] OTHER -> {}

\* the list kept as it came, duplicates included
UniqueTables_MutKeepAll(remoteTables) == remoteTables

\* the deduplication by nombre: the first entry of every name, in list order
UniqueTables(remoteTables) ==
    LET first == {i \in 1..Len(remoteTables) :
                     \A j \in 1..(i - 1) : remoteTables[j] # remoteTables[i]}
        nth[k \in 0..Len(remoteTables)] ==
            IF k = 0 THEN 0
            ELSE CHOOSE i \in first :
                    /\ i > nth[k - 1]
                    /\ \A j \in first : j > nth[k - 1] => i <= j
    IN  [k \in 1..Cardinality(first) |-> remoteTables[nth[k]]]

\* Math.round((completed / totalTables) * 100)
Progress(completed, totalTables) ==
    (200 * completed + totalTables) \div (2 * totalTables)

\* a SyncEvent; tableName "" and currentTable 0 stand for an absent property
SyncEvent(type, tableName, progress, totalTables, currentTable) ==
    [type |-> type, tableName |-> tableName, progress |-> progress,
     totalTables |-> totalTables, currentTable |-> currentTable]

SyncRequests ==
    [remote : SeqsUpTo(TableNames, MaxTables),
     listOk : BOOLEAN,
     outcome : [TableNames -> Outcomes]]

InitSync ==
    /\ sReq \in SyncRequests
    /\ sLocal = [tables |-> <<>>, completed |-> 0, error |-> ""]
    /\ sEvents = <<>>
    /\ sDb = [syncTable |-> {}, records |-> {}]
    /\ spc = "list"
    /\ pc = <<>> /\ input = <<>> /\ local = <<>> /\ response = <<>>
    /\ generations = <<>> /\ refTable = <<>> /\ emr = <<>>
    /\ vNow = CHOOSE n \in NowChoices : \A m \in NowChoices : n <= m
    /\ vDoc = Null /\ vOut = NoOutput /\ vpc = "off"
    /\ tReq = <<>> /\ tRes = <<>> /\ tpc = "off"

SyncTotal == Len(sLocal.tables)
SyncTable == sLocal.tables[sLocal.completed]
Yield(event) == sEvents' = Append(sEvents, event)
\* an exception inside the try block: the catch clause runs next
SyncCatch(message) ==
    /\ sLocal' = [sLocal EXCEPT !.error = message]
    /\ spc' = "catch"

\* lines 100-123: fetch the list (a failure is thrown to the caller),
\* deduplicate, yield 'start'
FetchList ==
    /\ spc = "list"
    /\ IF sReq.listOk
       THEN /\ sLocal' = [sLocal EXCEPT !.tables = UniqueTables(sReq.remote)]
            /\ Yield(SyncEvent("start", "", 0, Len(UniqueTables(sReq.remote)), 0))
            /\ spc' = "loop"
       ELSE /\ spc' = "thrown"
            /\ UNCHANGED <<sLocal, sEvents>>
    /\ UNCHANGED <<sReq, sDb, pipeVars, valVars, treeVars>>

\* lines 127-138: the next table; completed++, yield 'table_start'
TableStart ==
    /\ spc = "loop" /\ sLocal.completed < SyncTotal
    /\ sLocal' = [sLocal EXCEPT !.completed = @ + 1]
    /\ Yield(SyncEvent("table_start", sLocal.tables[sLocal.completed + 1],
                       Progress(sLocal.completed, SyncTotal), SyncTotal,
                       sLocal.completed + 1))
    /\ spc' = "fetch"
    /\ UNCHANGED <<sReq, sDb, pipeVars, valVars, treeVars>>

\* lines 142-147: await fetch(table.urlTablaSISPRO), await dataResponse.json()
FetchData ==
    /\ spc = "fetch"
    /\ IF sReq.outcome[SyncTable] = "fetch"
       THEN SyncCatch("HTTP 500")
       ELSE spc' = "upsert" /\ UNCHANGED sLocal
    /\ UNCHANGED <<sReq, sEvents, sDb, pipeVars, valVars, treeVars>>

\* lines 150-229: the bulk upsert in one transaction (nothing is written
\* when it fails)
BulkUpsert ==
    /\ spc = "upsert"
    /\ IF sReq.outcome[SyncTable] = "upsert"
       THEN SyncCatch("constraint failed") /\ UNCHANGED sDb
       ELSE /\ sDb' = [sDb EXCEPT !.records =
                          @ \cup {<<SyncTable, id>> : id \in RemoteRecords(SyncTable)}]
            /\ spc' = "meta"
            /\ UNCHANGED sLocal
    /\ UNCHANGED <<sReq, sEvents, pipeVars, valVars, treeVars>>

\* lines 232-261: await prisma.syncTable.upsert(...), yield 'table_done'
UpsertMeta ==
    /\ spc = "meta"
    /\ IF sReq.outcome[SyncTable] = "meta"
       THEN SyncCatch("database is locked") /\ UNCHANGED <<sDb, sEvents>>
       ELSE /\ sDb' = [sDb EXCEPT !.syncTable =
                          {r \in @ : r[1] # SyncTable}
                          \cup {<<SyncTable, Cardinality(RemoteRecords(SyncTable))>>}]
            /\ Yield(SyncEvent("table_done", SyncTable,
                               Progress(sLocal.completed, SyncTotal), SyncTotal,
                               sLocal.completed))
            /\ spc' = "loop"
            /\ UNCHANGED sLocal
    /\ UNCHANGED <<sReq, pipeVars, valVars, treeVars>>

\* lines 262-275: the catch clause yields 'table_error'
TableError ==
    /\ spc = "catch"
    /\ Yield(SyncEvent("table_error", SyncTable,
                       Progress(sLocal.completed, SyncTotal), SyncTotal,
                       sLocal.completed))
    /\ spc' = "loop"
    /\ UNCHANGED <<sReq, sLocal, sDb, pipeVars, valVars, treeVars>>

\* lines 277-282: after the loop, yield 'complete'
Complete ==
    /\ spc = "loop" /\ sLocal.completed = SyncTotal
    /\ Yield(SyncEvent("complete", "", 100, SyncTotal, 0))
    /\ spc' = "done"
    /\ UNCHANGED <<sReq, sLocal, sDb, pipeVars, valVars, treeVars>>

NextSync ==
    \/ FetchList
    \/ TableStart
    \/ FetchData
    \/ BulkUpsert
    \/ UpsertMeta
    \/ TableError
    \/ Complete

SpecSync == InitSync /\ [][NextSync]_vars
\* every await of the generator settles and the consumer keeps reading
SpecSyncFair == SpecSync /\ WF_vars(NextSync)

(***************************************************************************)
(* Claims about the sync                                                   *)
(***************************************************************************)
ListFetched == spc \in {"loop", "fetch", "upsert", "meta", "catch", "done"}
IsTableEnd(e) == e.type \in {"table_done", "table_error"}
TableEnds == SelectSeq(sEvents, IsTableEnd)
\* the names of the remote list, each once, in the order of first occurrence
InListOrder(tables) ==
    /\ {tables[k] : k \in 1..Len(tables)} = {sReq.remote[i] : i \in 1..Len(sReq.remote)}
    /\ \A k, l \in 1..Len(tables) : k < l =>
          /\ tables[k] # tables[l]
          /\ \E i \in 1..Len(sReq.remote) :
                /\ sReq.remote[i] = tables[k]
                /\ \A j \in 1..i : sReq.remote[j] # tables[l]
\* the events yielded so far: 'start', then per table 'table_start' and its
\* 'table_done' or 'table_error', then 'complete'
StreamWellFormed ==
    LET n == Len(sLocal.tables) IN
    /\ InListOrder(sLocal.tables)
    /\ sEvents # <<>> /\ Len(sEvents) <= 2 * n + 2
    /\ \A p \in 1..Len(sEvents) :
          CASE p = 1 -> sEvents[p].type = "start"
            [] p = 2 * n + 2 -> sEvents[p].type = "complete"
            [] p % 2 = 0 -> /\ sEvents[p].type = "table_start"
                            /\ sEvents[p].tableName = sLocal.tables[p \div 2]
            [] OTHER -> /\ IsTableEnd(sEvents[p])
                        /\ sEvents[p].tableName = sLocal.tables[p \div 2]
    /\ spc = "done" <=> Len(sEvents) = 2 * n + 2
    /\ \A k \in 1..Len(TableEnds) :
          /\ k > 1 => TableEnds[k - 1].progress <= TableEnds[k].progress
          /\ TableEnds[k].type = "table_done"
                <=> sReq.outcome[TableEnds[k].tableName] = "ok"
    /\ (spc = "done" /\ n > 0) => TableEnds[Len(TableEnds)].progress = 100
SyncSafe == ListFetched => StreamWellFormed
SyncStarted == ListFetched
SyncCompleted == spc = "done" /\ sEvents[Len(sEvents)].type = "complete"

\* C30: once the table list is fetched the stream is 'start', then for each
\* unique table in list order one 'table_start' followed by one 'table_done'
\* or 'table_error' of that table, then 'complete'; a failing table does not
\* keep the following ones from being attempted, 'complete' is eventually
\* yielded, and the progress of table_done/table_error events never
\* decreases and ends at 100.
C30_SyncEventStream == [](SyncSafe) /\ (SyncStarted ~> SyncCompleted)

\* a finished run over a list naming its first table twice: the first table
\* failed, the second was synced behind it, 'complete' came last
C30_Witness ==
    /\ spc = "done" /\ Len(sReq.remote) = 3 /\ Len(sLocal.tables) = 2
    /\ sReq.remote[1] = sReq.remote[3]
    /\ sEvents[3].type = "table_error" /\ sEvents[5].type = "table_done"
    /\ sEvents[5].progress = 100 /\ sEvents[3].progress = 50
    /\ sEvents[6].type = "complete"
=============================================================================
